---------------------------- MODULE Spec2Model ----------------------------
(***************************************************************************)
(* State-machine model of the virtual_audio transport core.                *)
(*                                                                         *)
(*   RingBuffer<T>   src/src/buffer.rs  (new, write, read, available,      *)
(*                   free_space, clear)                                    *)
(*   TripleRingBuffer  src/src/buffer.rs  (new, process, clear_all, stats) *)
(*   AudioProcessor  src/src/audio.rs  (new, process, convert_format,      *)
(*                   bytes_to_samples, needs_resampling)                   *)
(*   Resampler       src/src/audio.rs  (new, process)                      *)
(*   LinuxVirtualCable    src/src/platform/linux.rs  (new, start, stop,    *)
(*                   is_running, get_stats, process_audio,                 *)
(*                   duplicate_output, stop_all_duplications)              *)
(*   WindowsVirtualCable  src/src/platform/windows.rs  (new, start, stop)  *)
(*                                                                         *)
(* A ring buffer is a record [data, write_pos, read_pos, capacity, mask]   *)
(* and each method is an operator from the record (and the call's slices)  *)
(* to the record after the call and what the call returns.                 *)
(*                                                                         *)
(* Specifications:                                                         *)
(*   Spec           whole calls on one buffer by one owner, in any order   *)
(*   SpecSPSC       one writer thread (write) and one reader thread (read),*)
(*                  interleaved at every cursor load, slot copy and cursor *)
(*                  store                                                  *)
(*   SpecSPSCClear  as SpecSPSC, the reader thread also calling clear      *)
(*   SpecPolled     as SpecSPSCClear, both threads also calling available  *)
(*                  and free_space                                         *)
(*   SpecTriple     whole calls on one TripleRingBuffer by its owner:      *)
(*                  process, clear_all and writes into the public output   *)
(*                  stage                                                  *)
(*   SpecProcess    AudioProcessor::process on one input and output slice  *)
(*   SpecFormat     convert_format on one input slice, bytes_to_samples on *)
(*                  the bytes it returned                                  *)
(*   SpecResampler  Resampler::process on one input slice                  *)
(*   SpecStrategies both process methods on the same rates and input       *)
(*   SpecSized      as SpecSPSC, the writer also calling free_space and    *)
(*                  the reader available                                   *)
(*   SpecWrap       as SpecSPSC, the cursors starting just below           *)
(*                  usize::MAX                                             *)
(*   SpecThirdClear as SpecSPSC, a third thread calling clear              *)
(*   SpecRetry      a producer that writes the remainder of an input       *)
(*                  until it is accepted and a consumer that keeps         *)
(*                  reading, both scheduled fairly                         *)
(*   SpecCable      whole calls on one virtual cable by its owner, each    *)
(*                  pactl command ending in any of its outcomes            *)
(*                                                                         *)
(* Samples are f32 and the rate arithmetic is f64: both are modelled       *)
(* exactly, every operation rounding its exact result to nearest, ties to  *)
(* even.                                                                   *)
(*                                                                         *)
(* The cursor loads and stores are atomics with acquire/release pairing on *)
(* the opposite cursor, so every slot copy that precedes a cursor store is *)
(* visible to the thread that loads that cursor: the interleaving of the   *)
(* steps below is the behaviour of the program.                            *)
(***************************************************************************)
EXTENDS Integers, Sequences, FiniteSets, TLC

(***************************************************************************)
(* Bounds of the model.                                                    *)
(***************************************************************************)
\* requested capacities handed to RingBuffer::new are 0..MaxReqCap
MaxReqCap == 3
\* longest slice handed to write
MaxLen == 2
\* longest output slice handed to read
MaxOut == 2
\* sample values are 1..NumVals (T::default() is 0)
NumVals == 2
\* the writes of a behaviour hand a buffer MaxTotal samples in all
MaxTotal == 3
\* width of usize in the model (64 on the targets of the crate)
UsizeBits == 8
\* the input stage of a TripleRingBuffer accepts MaxProcessed samples in all
MaxProcessed == 3
\* the code owning a TripleRingBuffer writes MaxOutside samples in all into
\* its output stage
MaxOutside == 2
\* longest input slice handed to AudioProcessor::process and Resampler::process
MaxSamples == 11
\* longest output slice handed to AudioProcessor::process
MaxSlots == 15
\* samples handed to convert_format are multiples of 1 / SampleSteps
SampleSteps == 4
\* the platform audio service loads MaxModules modules in all
MaxModules == 3

(***************************************************************************)
(* Machine arithmetic on usize.                                            *)
(***************************************************************************)
RECURSIVE Pow2(_)
Pow2(n) == IF n = 0 THEN 1 ELSE 2 * Pow2(n - 1)

UsizeMod == Pow2(UsizeBits)

\* a - b on usize, wrapping as the release profile does (the debug profile
\* panics instead; no reachable state below makes a difference negative)
USub(a, b) == (a - b) % UsizeMod

\* a + b on usize, wrapping as the release profile does
UAdd(a, b) == (a + b) % UsizeMod

\* a & b, bit by bit
RECURSIVE BitAnd(_, _)
BitAnd(a, b) ==
    IF a = 0 \/ b = 0 THEN 0
    ELSE (a % 2) * (b % 2) + 2 * BitAnd(a \div 2, b \div 2)

Min(a, b) == IF a <= b THEN a ELSE b

\* number of bits of n: usize::BITS - n.leading_zeros()
RECURSIVE BitLength(_)
BitLength(n) == IF n = 0 THEN 0 ELSE 1 + BitLength(n \div 2)

\* usize::one_less_than_next_power_of_two:
\* if n <= 1 { 0 } else { usize::MAX >> (n - 1).leading_zeros() }
OneLessThanNextPowerOfTwo(n) ==
    IF n <= 1 THEN 0 ELSE Pow2(BitLength(n - 1)) - 1

\* usize::next_power_of_two: one_less_than_next_power_of_two() + 1.  Above
\* 2^(BITS - 1) the sum overflows: it wraps to 0 where overflow checks are
\* off (release profile) and panics where they are on (debug profile)
NextPowerOfTwo(n) == UAdd(OneLessThanNextPowerOfTwo(n), 1)

NextPowerOfTwoOverflows(n) == OneLessThanNextPowerOfTwo(n) + 1 >= UsizeMod

(***************************************************************************)
(* Sample values and slices.                                               *)
(***************************************************************************)
\* T::default()
Default == 0
Vals == 1..NumVals
\* content of a caller's output slice before read fills it
OutFill == -1

SeqsUpTo(S, n) == UNION {[1..k -> S] : k \in 0..n}
Inputs == SeqsUpTo(Vals, MaxLen)
\* the slices handed to a TripleRingBuffer: k samples counting up from 1
\* (and round again after NumVals), so that neighbours differ
Ramp(k) == [i \in 1..k |-> ((i - 1) % NumVals) + 1]
Ramps == {Ramp(k) : k \in 0..MaxLen}
OutputOfLen(k) == [i \in 1..k |-> OutFill]
Outputs == {OutputOfLen(k) : k \in 0..MaxOut}

(***************************************************************************)
(* RingBuffer::new                                                         *)
(***************************************************************************)
\* faulty variant: the request taken as the capacity, not rounded up
NewCapacityNoRounding(c) == c

\* let capacity = capacity.next_power_of_two()
NewCapacity(c) == NextPowerOfTwo(c)

\* let mask = capacity - 1
NewMask(cap) == USub(cap, 1)

RbNew(c) ==
    LET cap == NewCapacity(c) IN
    [data |-> [i \in 0..(cap - 1) |-> Default],
     write_pos |-> 0,
     read_pos |-> 0,
     capacity |-> cap,
     mask |-> NewMask(cap)]

(***************************************************************************)
(* RingBuffer::available, RingBuffer::free_space                           *)
(***************************************************************************)
RbAvailable(rb) == USub(rb.write_pos, rb.read_pos)

RbFreeSpace(rb) == USub(rb.capacity, RbAvailable(rb))

(***************************************************************************)
(* RingBuffer::write                                                       *)
(***************************************************************************)
\* (pos + i) & self.mask
SlotIndex(rb, pos, i) == BitAnd(UAdd(pos, i), rb.mask)

\* faulty variant: the occupied part of the buffer not subtracted
WriteAvailableWholeBuffer(rb, wp, rp) == rb.capacity

\* let available = self.capacity - (write_pos - read_pos)
WriteAvailable(rb, wp, rp) == USub(rb.capacity, USub(wp, rp))

\* faulty variant: the input not cut to the free space
ToWriteWholeInput(samples, available) == Len(samples)

\* let to_write = samples.len().min(available)
ToWrite(samples, available) == Min(Len(samples), available)

\* faulty variant: the loop index left out of the slot index
RECURSIVE CopyInSameSlot(_, _, _, _, _)
CopyInSameSlot(rb, d, samples, i, n) ==
    IF i >= n THEN d
    ELSE CopyInSameSlot(rb, [d EXCEPT ![SlotIndex(rb, rb.write_pos, 0)] = samples[i + 1]],
                        samples, i + 1, n)

\* for (i, &sample) in samples.iter().take(to_write).enumerate()
\*     { self.data[(write_pos + i) & self.mask] = sample }
RECURSIVE CopyIn(_, _, _, _, _)
CopyIn(rb, d, samples, i, n) ==
    IF i >= n THEN d
    ELSE CopyIn(rb, [d EXCEPT ![SlotIndex(rb, rb.write_pos, i)] = samples[i + 1]],
                samples, i + 1, n)

\* faulty variant: the sum held at usize::MAX when it overflows
WritePosSaturating(wp, n) == Min(wp + n, UsizeMod - 1)

\* write_pos + to_write
WritePosAfter(wp, n) == UAdd(wp, n)

RbWrite(rb, samples) ==
    LET n == ToWrite(samples, WriteAvailable(rb, rb.write_pos, rb.read_pos)) IN
    IF n = 0
    THEN [rb |-> rb, ret |-> 0]
    ELSE [rb |-> [rb EXCEPT !.data = CopyIn(rb, rb.data, samples, 0, n),
                            !.write_pos = WritePosAfter(rb.write_pos, n)],
          ret |-> n]

(***************************************************************************)
(* RingBuffer::read                                                        *)
(***************************************************************************)
\* faulty variant: every slot taken to hold an unread sample
ReadAvailableWholeBuffer(rb, rp, wp) == rb.capacity

\* let available = write_pos - read_pos
ReadAvailable(rb, rp, wp) == USub(wp, rp)

\* faulty variant: the output not cut to the samples available
ToReadWholeOutput(output, available) == Len(output)

\* let to_read = output.len().min(available)
ToRead(output, available) == Min(Len(output), available)

\* for (i, out) in output.iter_mut().take(to_read).enumerate()
\*     { *out = self.data[(read_pos + i) & self.mask] }
RECURSIVE CopyOut(_, _, _, _)
CopyOut(rb, output, i, n) ==
    IF i >= n THEN output
    ELSE CopyOut(rb, [output EXCEPT ![i + 1] = rb.data[SlotIndex(rb, rb.read_pos, i)]],
                 i + 1, n)

\* read_pos + to_read
ReadPosAfter(rp, n) == UAdd(rp, n)

RbRead(rb, output) ==
    LET n == ToRead(output, ReadAvailable(rb, rb.read_pos, rb.write_pos)) IN
    IF n = 0
    THEN [rb |-> rb, out |-> output, ret |-> 0]
    ELSE [rb |-> [rb EXCEPT !.read_pos = ReadPosAfter(rb.read_pos, n)],
          out |-> CopyOut(rb, output, 0, n),
          ret |-> n]

(***************************************************************************)
(* RingBuffer::clear                                                       *)
(***************************************************************************)
\* faulty variant: the read cursor rewound to the start
ClearReadPosToZero(wp) == 0

\* self.read_pos.store(write_pos, ...)
ClearReadPos(wp) == wp

\* faulty variant: both cursors rewound to the start
RbClearBothCursors(rb) == [rb EXCEPT !.read_pos = 0, !.write_pos = 0]

RbClear(rb) == [rb EXCEPT !.read_pos = ClearReadPos(rb.write_pos)]

(***************************************************************************)
(* TripleRingBuffer: three RingBuffer<f32> of the same requested size      *)
(***************************************************************************)
TripleNew(buffer_size) ==
    [ring_input |-> RbNew(buffer_size),
     ring_resample |-> RbNew(buffer_size),
     ring_output |-> RbNew(buffer_size)]

\* faulty variant: the transient buffer one sample short of what was written
TempBufOneShort(written) ==
    [i \in 1..(IF written = 0 THEN 0 ELSE written - 1) |-> Default]

\* let mut temp_buf = vec![0.0f32; written]
TempBuf(written) == [i \in 1..written |-> Default]

\* faulty variant: the samples handed on in reverse order
PassThroughReversed(temp_buf, read) == [i \in 1..read |-> temp_buf[read + 1 - i]]

\* &temp_buf[..read]: the pass-through handed to the resample stage
PassThrough(temp_buf, read) == SubSeq(temp_buf, 1, read)

\* faulty variant: the caller's output filled from the resample stage
DrainFromResample(t, output) == RbRead(t.ring_resample, output)

\* let written_output = self.ring_output.read(output)
Drain(t, output) == RbRead(t.ring_output, output)

Ok(n) == [tag |-> "Ok", value |-> n]
Err(n) == [tag |-> "Err", value |-> n]

\* faulty variant: an output left empty reported as an error
ProcessResultErrWhenStarved(written_output) ==
    IF written_output = 0 THEN Err(0) ELSE Ok(written_output)

\* Ok(written_output)
ProcessResult(written_output) == Ok(written_output)

\* TripleRingBuffer::process: the three stages after the call, the caller's
\* output slice after it and the value returned; written is what the input
\* stage accepted and input_free_at_write the free space of the input stage
\* between its write and its drain
TripleProcess(t, input, output) ==
    LET wr == RbWrite(t.ring_input, input)
        rd == RbRead(wr.rb, TempBuf(wr.ret))
        rs == RbWrite(t.ring_resample, PassThrough(rd.out, rd.ret))
        ro == Drain(t, output)
    IN  [triple |-> [ring_input |-> rd.rb,
                     ring_resample |-> rs.rb,
                     ring_output |-> ro.rb],
         out |-> ro.out,
         ret |-> ProcessResult(ro.ret),
         written |-> wr.ret,
         input_free_at_write |-> RbFreeSpace(wr.rb)]

\* faulty variant: the resample stage left as it is
TripleClearAllButResample(t) ==
    [ring_input |-> RbClear(t.ring_input),
     ring_resample |-> t.ring_resample,
     ring_output |-> RbClear(t.ring_output)]

\* TripleRingBuffer::clear_all
TripleClearAll(t) ==
    [ring_input |-> RbClear(t.ring_input),
     ring_resample |-> RbClear(t.ring_resample),
     ring_output |-> RbClear(t.ring_output)]

\* TripleRingBuffer::stats
Stats(t) ==
    [input_available |-> RbAvailable(t.ring_input),
     input_free |-> RbFreeSpace(t.ring_input),
     resample_available |-> RbAvailable(t.ring_resample),
     resample_free |-> RbFreeSpace(t.ring_resample),
     output_available |-> RbAvailable(t.ring_output),
     output_free |-> RbFreeSpace(t.ring_output)]

(***************************************************************************)
(* Natural numbers beyond the integers of TLC, as        *)
(* little-endian sequences of limbs below LimbBase with no leading zero    *)
(* limb (zero is the empty sequence): the exact values f64 and f32         *)
(* arithmetic rounds                                                       *)
(***************************************************************************)
LimbBits == 5 * 3
LimbBase == Pow2(LimbBits)

RECURSIVE BNorm(_)
BNorm(a) ==
    IF a = <<>> THEN <<>>
    ELSE IF a[Len(a)] = 0 THEN BNorm(SubSeq(a, 1, Len(a) - 1)) ELSE a

RECURSIVE BFromInt(_)
BFromInt(n) == IF n = 0 THEN <<>> ELSE <<n % LimbBase>> \o BFromInt(n \div LimbBase)

\* the value of a, which has to fit the integers of TLC
RECURSIVE BToInt(_)
BToInt(a) == IF a = <<>> THEN 0 ELSE a[1] + LimbBase * BToInt(Tail(a))

BLimb(a, i) == IF i <= Len(a) THEN a[i] ELSE 0

\* -1, 0, 1 as a is below, equal to, above b
RECURSIVE BCmpFrom(_, _, _)
BCmpFrom(a, b, i) ==
    IF i = 0 THEN 0
    ELSE IF a[i] < b[i] THEN -1
    ELSE IF a[i] > b[i] THEN 1
    ELSE BCmpFrom(a, b, i - 1)

BCmp(a, b) ==
    IF Len(a) < Len(b) THEN -1
    ELSE IF Len(a) > Len(b) THEN 1
    ELSE BCmpFrom(a, b, Len(a))

RECURSIVE BAddFrom(_, _, _, _)
BAddFrom(a, b, i, carry) ==
    IF i > Len(a) /\ i > Len(b)
    THEN (IF carry = 0 THEN <<>> ELSE <<carry>>)
    ELSE LET s == BLimb(a, i) + BLimb(b, i) + carry IN
         <<s % LimbBase>> \o BAddFrom(a, b, i + 1, s \div LimbBase)

BAdd(a, b) == BAddFrom(a, b, 1, 0)

\* a - b for a >= b
RECURSIVE BSubFrom(_, _, _, _)
BSubFrom(a, b, i, borrow) ==
    IF i > Len(a) THEN <<>>
    ELSE LET d == a[i] - BLimb(b, i) - borrow IN
         <<d % LimbBase>> \o BSubFrom(a, b, i + 1, IF d < 0 THEN 1 ELSE 0)

BSub(a, b) == BNorm(BSubFrom(a, b, 1, 0))

\* a * k for a limb k
RECURSIVE BMulLimbFrom(_, _, _, _)
BMulLimbFrom(a, k, i, carry) ==
    IF i > Len(a)
    THEN (IF carry = 0 THEN <<>> ELSE <<carry>>)
    ELSE LET s == a[i] * k + carry IN
         <<s % LimbBase>> \o BMulLimbFrom(a, k, i + 1, s \div LimbBase)

BMulLimb(a, k) == IF k = 0 THEN <<>> ELSE BMulLimbFrom(a, k, 1, 0)

BShlLimbs(a, n) == IF a = <<>> THEN <<>> ELSE [i \in 1..n |-> 0] \o a

RECURSIVE BMulFrom(_, _, _)
BMulFrom(a, b, j) ==
    IF j > Len(b) THEN <<>>
    ELSE BAdd(BShlLimbs(BMulLimb(a, b[j]), j - 1), BMulFrom(a, b, j + 1))

BMul(a, b) == BMulFrom(a, b, 1)

\* a * 2^n
BShl(a, n) == BShlLimbs(BMulLimb(a, Pow2(n % LimbBits)), n \div LimbBits)

\* floor(a / 2^n)
BShr(a, n) ==
    LET drop == n \div LimbBits
        k == n % LimbBits
        rest == IF drop >= Len(a) THEN <<>> ELSE SubSeq(a, drop + 1, Len(a))
    IN  BNorm([i \in 1..Len(rest) |->
                  rest[i] \div Pow2(k)
                  + (BLimb(rest, i + 1) % Pow2(k)) * Pow2(LimbBits - k)])

\* number of bits of a
BBitLen(a) == IF a = <<>> THEN 0 ELSE LimbBits * (Len(a) - 1) + BitLength(a[Len(a)])

BIsOdd(a) == a # <<>> /\ a[1] % 2 = 1

\* number of zero bits below the lowest one bit of a limb k > 0
RECURSIVE TrailingZeros(_)
TrailingZeros(k) == IF k % 2 = 1 THEN 0 ELSE 1 + TrailingZeros(k \div 2)

RECURSIVE BTrailingZeros(_)
BTrailingZeros(a) ==
    IF a = <<>> THEN 0
    ELSE IF a[1] = 0 THEN LimbBits + BTrailingZeros(Tail(a))
    ELSE TrailingZeros(a[1])

\* quotient and remainder of a by b > 0, by long division: one quotient limb
\* at a time, each found by bisection
RECURSIVE BDigit(_, _, _, _)
BDigit(a, b, lo, hi) ==
    IF lo = hi THEN lo
    ELSE LET mid == (lo + hi + 1) \div 2 IN
         IF BCmp(BMulLimb(b, mid), a) <= 0
         THEN BDigit(a, b, mid, hi)
         ELSE BDigit(a, b, lo, mid - 1)

RECURSIVE BDivMod(_, _)
BDivMod(a, b) ==
    IF b = <<1>> THEN [q |-> a, r |-> <<>>]
    ELSE IF a = <<>> THEN [q |-> <<>>, r |-> <<>>]
    ELSE LET upper == BDivMod(Tail(a), b)
             rest == BNorm(<<a[1]>> \o upper.r)
             digit == IF BCmp(rest, b) < 0 THEN 0
                      ELSE BDigit(rest, b, 1, LimbBase - 1)
         IN  [q |-> BNorm(<<digit>> \o upper.q),
              r |-> BSub(rest, BMulLimb(b, digit))]

\* |n| for an integer n of TLC, the most negative one included
BAbs(n) ==
    IF n >= 0 THEN BFromInt(n)
    ELSE LET low == (LimbBase - (n % LimbBase)) % LimbBase IN
         BNorm(<<low>> \o BFromInt(-((n + low) \div LimbBase)))

(***************************************************************************)
(* Binary floating point: a finite value is [neg, m, e], standing for      *)
(* (-1)^neg * m * 2^e with m odd (zero is m = <<>>, e = 0).  Each          *)
(* operation rounds the exact result to p significant bits, to nearest     *)
(* with ties to even: p = F64Bits for f64 and F32Bits for f32.  The        *)
(* exponent range is not modelled: no value of the model is near it.       *)
(***************************************************************************)
F64Bits == 50 + 3
F32Bits == 20 + 4

FZero == [neg |-> FALSE, m |-> <<>>, e |-> 0]

FCanon(neg, m, e) ==
    IF m = <<>> THEN FZero
    ELSE LET z == BTrailingZeros(m) IN [neg |-> neg, m |-> BShr(m, z), e |-> e + z]

\* (-1)^neg * (n / d) * 2^e rounded to p significant bits
FRoundRat(p, neg, n, d, e) ==
    IF n = <<>> THEN FZero
    ELSE LET k == p + 1 - (BBitLen(n) - BBitLen(d))
             qr == BDivMod(IF k >= 0 THEN BShl(n, k) ELSE n,
                           IF k >= 0 THEN d ELSE BShl(d, -k))
             wide == BBitLen(qr.q) > p + 1
             q1 == IF wide THEN BShr(qr.q, 1) ELSE qr.q
             sticky == qr.r # <<>> \/ (wide /\ BIsOdd(qr.q))
             k1 == IF wide THEN k - 1 ELSE k
             m0 == BShr(q1, 1)
             up == BIsOdd(q1) /\ (sticky \/ BIsOdd(m0))
         IN  FCanon(neg, IF up THEN BAdd(m0, <<1>>) ELSE m0, e - k1 + 1)

\* n as f64 / as f32 for an integer n
FFromInt(p, n) == FRoundRat(p, n < 0, BAbs(n), <<1>>, 0)

FNeg(x) == IF x.m = <<>> THEN x ELSE [x EXCEPT !.neg = ~x.neg]

FMul(p, x, y) == FRoundRat(p, x.neg # y.neg, BMul(x.m, y.m), <<1>>, x.e + y.e)

\* x / y for y # 0
FDiv(p, x, y) == FRoundRat(p, x.neg # y.neg, x.m, y.m, x.e - y.e)

FAdd(p, x, y) ==
    LET low == Min(x.e, y.e)
        xm == BShl(x.m, x.e - low)
        ym == BShl(y.m, y.e - low)
    IN  IF x.neg = y.neg THEN FRoundRat(p, x.neg, BAdd(xm, ym), <<1>>, low)
        ELSE IF BCmp(xm, ym) >= 0 THEN FRoundRat(p, x.neg, BSub(xm, ym), <<1>>, low)
        ELSE FRoundRat(p, y.neg, BSub(ym, xm), <<1>>, low)

FSub(p, x, y) == FAdd(p, x, FNeg(y))

\* x as f32 for an f64 x
FToF32(x) == FRoundRat(F32Bits, x.neg, x.m, <<1>>, x.e)

\* x < y
FLess(x, y) ==
    LET low == Min(x.e, y.e)
        xm == BShl(x.m, x.e - low)
        ym == BShl(y.m, y.e - low)
    IN  IF x.neg /\ ~y.neg THEN TRUE
        ELSE IF ~x.neg /\ y.neg THEN FALSE
        ELSE IF x.neg THEN BCmp(xm, ym) > 0
        ELSE BCmp(xm, ym) < 0

\* f32::clamp
FClamp(x, lo, hi) == IF FLess(x, lo) THEN lo ELSE IF FLess(hi, x) THEN hi ELSE x

\* |x| with the fraction cut off
FTruncMag(x) == IF x.e >= 0 THEN BShl(x.m, x.e) ELSE BShr(x.m, -x.e)

\* x as an integer type with the bounds lo <= 0 <= hi: the fraction is cut
\* off and the value saturates at the bounds
FAsInt(x, lo, hi) ==
    LET t == FTruncMag(x) IN
    IF x.neg
    THEN (IF BCmp(t, BAbs(lo)) >= 0 THEN lo ELSE -BToInt(t))
    ELSE (IF BCmp(t, BFromInt(hi)) >= 0 THEN hi ELSE BToInt(t))

(***************************************************************************)
(* AudioFormat (src/src/lib.rs) and AudioProcessor (src/src/audio.rs).     *)
(* A sample is an f32, a byte is 0..255, a slice is a sequence.            *)
(***************************************************************************)
Formats == {"F32LE", "S16LE", "S24LE", "S32LE"}

\* AudioFormat::bytes_per_sample
BytesPerSample(format) ==
    CASE format = "F32LE" -> 4
      [] format = "S16LE" -> 2
      [] format = "S24LE" -> 3
      [] format = "S32LE" -> 4

\* the f32 literal n / d, the f32 nearest to it
F32Lit(n, d) == FRoundRat(F32Bits, n < 0, BAbs(n), BFromInt(d), 0)

I16Min == -32768
I16Max == 32767
I32Max == 2147483647
I32Min == -I32Max - 1

\* the scale factors of the integer formats, as the f32 literals of the code
Scale16 == F32Lit(32767, 1)
Scale24 == F32Lit(8388607, 1)
Scale32 == F32Lit(I32Max, 1)

\* x as usize for an f64 x
AsUsize(x) == FAsInt(x, 0, UsizeMod - 1)

\* AudioProcessor::new, for input_sample_rate > 0
AudioProcessorNew(input_sample_rate, output_sample_rate, channels, format) ==
    [input_sample_rate |-> input_sample_rate,
     output_sample_rate |-> output_sample_rate,
     channels |-> channels,
     format |-> format,
     resample_factor |->
         FDiv(F64Bits, FFromInt(F64Bits, output_sample_rate),
                       FFromInt(F64Bits, input_sample_rate))]

\* AudioProcessor::default
AudioProcessorDefault == AudioProcessorNew(48000, 48000, 2, "F32LE")

\* AudioProcessor::needs_resampling
NeedsResampling(p) == p.input_sample_rate # p.output_sample_rate

\* let output_len = ((input.len() as f64) * self.resample_factor) as usize
OutputLen(factor, len) == AsUsize(FMul(F64Bits, FFromInt(F64Bits, len), factor))

\* faulty variant: the source index rounded up
SrcIdxRoundedUp(factor, i) ==
    AsUsize(FDiv(F64Bits, FFromInt(F64Bits, i), factor)) + 1

\* let src_idx = (i as f64 / self.resample_factor) as usize, i counted from 0
SrcIdx(factor, i) == AsUsize(FDiv(F64Bits, FFromInt(F64Bits, i), factor))

\* faulty variant: the whole output slice overwritten, with the default
\* sample beyond the input
PassThroughCopyZeroFill(input, output) ==
    [i \in 1..Len(output) |-> IF i <= Len(input) THEN input[i] ELSE FZero]

\* output[..to_process].copy_from_slice(&input[..to_process])
PassThroughCopy(input, output) ==
    [i \in 1..Len(output) |->
        IF i <= Min(Len(input), Len(output)) THEN input[i] ELSE output[i]]

\* the loop of process: output[i] = input[src_idx] for i below actual_output
\* whenever src_idx is within the input
ResampleCopy(factor, input, output, actual_output) ==
    [i \in 1..Len(output) |->
        IF i - 1 < actual_output
        THEN LET src_idx == SrcIdx(factor, i - 1) IN
             IF src_idx < Len(input) THEN input[src_idx + 1] ELSE output[i]
        ELSE output[i]]

\* AudioProcessor::process: the output slice after the call and what the
\* call returns
AudioProcess(p, input, output) ==
    IF p.input_sample_rate = p.output_sample_rate
    THEN [out |-> PassThroughCopy(input, output),
          ret |-> Ok(Min(Len(input), Len(output)))]
    ELSE LET actual_output ==
                 Min(OutputLen(p.resample_factor, Len(input)), Len(output))
         IN  [out |-> ResampleCopy(p.resample_factor, input, output, actual_output),
              ret |-> Ok(actual_output)]

\* the n low bytes of the two's-complement integer v, least significant first
LeBytes(v, n) == [k \in 1..n |-> (v \div Pow2(8 * (k - 1))) % 256]

\* the four bytes of an f32 in memory (little-endian IEEE 754 binary32)
F32ToBytes(x) ==
    IF x.m = <<>> THEN <<0, 0, 0, 0>>
    ELSE LET len == BBitLen(x.m)
             normal == x.e + len - 1 + 127 >= 1
             biased == IF normal THEN x.e + len - 1 + 127 ELSE 0
             frac == IF normal
                     THEN BToInt(BShl(x.m, F32Bits - len)) - Pow2(F32Bits - 1)
                     ELSE BToInt(BShl(x.m, x.e + 149))
         IN  <<frac % 256,
               (frac \div 256) % 256,
               (biased % 2) * 128 + frac \div 65536,
               (IF x.neg THEN 128 ELSE 0) + biased \div 2>>

\* an infinity (frac = 0) or a NaN
NonFinite(neg, frac) == [neg |-> neg, nonfinite |-> frac]

\* the f32 whose four bytes in memory are b
BytesToF32(b) ==
    LET neg == b[4] >= 128
        biased == (b[4] % 128) * 2 + b[3] \div 128
        frac == (b[3] % 128) * 65536 + b[2] * 256 + b[1]
    IN  IF biased = 255 THEN NonFinite(neg, frac)
        ELSE IF biased = 0 THEN FCanon(neg, BFromInt(frac), -149)
        ELSE FCanon(neg, BFromInt(frac + Pow2(F32Bits - 1)), biased - 127 - (F32Bits - 1))

\* faulty variant: the sample scaled without being clamped
ScaledUnclamped(sample, scale) == FMul(F32Bits, sample, scale)

\* sample.clamp(-1.0, 1.0) * scale
Scaled(sample, scale) ==
    FMul(F32Bits, FClamp(sample, F32Lit(-1, 1), F32Lit(1, 1)), scale)

\* faulty variant: the scaled sample rounded to the nearest integer
AsI16Rounded(x) ==
    FAsInt(FAdd(F32Bits, x, IF x.neg THEN F32Lit(-1, 2) ELSE F32Lit(1, 2)),
           I16Min, I16Max)

\* x as i16 and x as i32 for an f32 x
AsI16(x) == FAsInt(x, I16Min, I16Max)
AsI32(x) == FAsInt(x, I32Min, I32Max)

\* the bytes convert_format appends for one sample
EncodeSample(sample, format) ==
    CASE format = "F32LE" -> F32ToBytes(sample)
      [] format = "S16LE" -> LeBytes(AsI16(Scaled(sample, Scale16)), 2)
      [] format = "S24LE" -> SubSeq(LeBytes(AsI32(Scaled(sample, Scale24)), 4), 1, 3)
      [] format = "S32LE" -> LeBytes(AsI32(Scaled(sample, Scale32)), 4)

\* faulty variant: the last byte of every sample left out
ConvertFormatShort(input, output_format) ==
    LET n == BytesPerSample(output_format) - 1 IN
    [k \in 1..(Len(input) * n) |->
        EncodeSample(input[(k - 1) \div n + 1], output_format)[((k - 1) % n) + 1]]

\* AudioProcessor::convert_format
ConvertFormat(input, output_format) ==
    LET n == BytesPerSample(output_format) IN
    [k \in 1..(Len(input) * n) |->
        EncodeSample(input[(k - 1) \div n + 1], output_format)[((k - 1) % n) + 1]]

\* i16::from_le_bytes and i32::from_le_bytes
I16FromLeBytes(b) == b[1] + 256 * b[2] - (IF b[2] >= 128 THEN 65536 ELSE 0)
I32FromLeBytes(b) ==
    16777216 * (b[4] - (IF b[4] >= 128 THEN 256 ELSE 0))
    + 65536 * b[3] + 256 * b[2] + b[1]

\* faulty variant: the fourth byte of an S24LE group filled with its sign
S24SignExtended(b) == b \o <<IF b[3] >= 128 THEN 255 ELSE 0>>

\* let mut bytes = [0u8; 4]; bytes[0..3] taken from the input
S24Widened(b) == b \o <<0>>

\* the sample bytes_to_samples pushes for one group of bytes
DecodeSample(b, format) ==
    CASE format = "F32LE" -> BytesToF32(b)
      [] format = "S16LE" ->
            FDiv(F32Bits, FFromInt(F32Bits, I16FromLeBytes(b)), Scale16)
      [] format = "S24LE" ->
            FDiv(F32Bits, FFromInt(F32Bits, I32FromLeBytes(S24Widened(b))), Scale24)
      [] format = "S32LE" ->
            FDiv(F32Bits, FFromInt(F32Bits, I32FromLeBytes(b)), Scale32)

\* let num_samples = input.len() / bytes_per_sample
NumSamples(input, input_format) == Len(input) \div BytesPerSample(input_format)

\* what bytes_to_samples returns when it returns
Decoded(input, input_format) ==
    LET n == BytesPerSample(input_format) IN
    [i \in 1..NumSamples(input, input_format) |->
        DecodeSample(SubSeq(input, (i - 1) * n + 1, i * n), input_format)]

\* a call that returned samples, and a call that panicked
Returned(samples) == [tag |-> "Returned", value |-> samples]
Panicked == [tag |-> "Panicked", value |-> <<>>]

\* AudioProcessor::bytes_to_samples: every outcome of the call.  aligned
\* tells whether input.as_ptr() is a multiple of 4.  For F32LE the pointer
\* is cast to *const f32 and handed to slice::from_raw_parts, which is
\* undefined behaviour unless it is aligned: a build with debug assertions
\* panics on the violated precondition, a build without them reads the bytes
\* unaligned.
BytesToSamples(input, input_format, aligned) ==
    IF input_format = "F32LE" /\ ~aligned
    THEN {Returned(Decoded(input, input_format)), Panicked}
    ELSE {Returned(Decoded(input, input_format))}

(***************************************************************************)
(* Resampler (src/src/audio.rs).                                           *)
(***************************************************************************)
\* Resampler::new
ResamplerNew(input_rate, output_rate, channels) ==
    [input_rate |-> input_rate, output_rate |-> output_rate, channels |-> channels]

\* let ratio = self.output_rate as f64 / self.input_rate as f64
Ratio(rs) ==
    FDiv(F64Bits, FFromInt(F64Bits, rs.output_rate), FFromInt(F64Bits, rs.input_rate))

\* let frac = (i as f64 / ratio) - src_idx as f64
Frac(ratio, i) ==
    FSub(F64Bits, FDiv(F64Bits, FFromInt(F64Bits, i), ratio),
                  FFromInt(F64Bits, SrcIdx(ratio, i)))

\* faulty variant: the line through y0 and y1 followed one step further
InterpolatedBeyond(y0, y1, frac) ==
    FAdd(F32Bits, y1, FMul(F32Bits, FSub(F32Bits, y1, y0), FToF32(frac)))

\* y0 + (y1 - y0) * (frac as f32)
Interpolated(y0, y1, frac) ==
    FAdd(F32Bits, y0, FMul(F32Bits, FSub(F32Bits, y1, y0), FToF32(frac)))

\* what the loop of process pushes for the output index i (counted from 0)
Pushed(ratio, input, i) ==
    LET src_idx == SrcIdx(ratio, i) IN
    IF src_idx + 1 < Len(input)
    THEN <<Interpolated(input[src_idx + 1], input[src_idx + 2], Frac(ratio, i))>>
    ELSE IF src_idx < Len(input) THEN <<input[src_idx + 1]>>
    ELSE <<>>

\* the loop of process from the output index i on
RECURSIVE ResampleFrom(_, _, _, _)
ResampleFrom(ratio, input, i, output_len) ==
    IF i >= output_len THEN <<>>
    ELSE Pushed(ratio, input, i) \o ResampleFrom(ratio, input, i + 1, output_len)

\* faulty variant: equal rates answered with the input less its last sample
SameRateDropLast(input) == SubSeq(input, 1, Len(input) - 1)

\* input.to_vec()
SameRate(input) == input

\* Resampler::process
ResamplerProcess(rs, input) ==
    IF rs.input_rate = rs.output_rate THEN Ok(SameRate(input))
    ELSE Ok(ResampleFrom(Ratio(rs), input, 0, OutputLen(Ratio(rs), Len(input))))

(***************************************************************************)
(* The platform audio service a LinuxVirtualCable drives through pactl:    *)
(* the modules it has loaded for the cable, each with the index it was     *)
(* given, and the index the next module gets.                              *)
(***************************************************************************)
\* Option<T>
None == <<>>
Some(x) == <<x>>

\* how a pactl command ends: Command::output() / status() returns Err (the
\* command could not be run), the command exits with a failure status, or
\* it exits with success
PactlOutcomes == {"not_run", "failed", "succeeded"}

PulseNew == [modules |-> {}, next_index |-> 1]

\* pactl load-module <name> ..: on success the module is loaded and its
\* index is what the command prints
LoadModule(p, name, outcome) ==
    IF outcome = "succeeded"
    THEN [pulse |-> [modules |-> p.modules \cup {[index |-> p.next_index, name |-> name]},
                     next_index |-> p.next_index + 1],
          stdout |-> p.next_index]
    ELSE [pulse |-> p, stdout |-> 0]

\* pactl unload-module <id>, for every id of ids but those of unmoved, for
\* which the command did not succeed
UnloadModules(p, ids, unmoved) ==
    [p EXCEPT !.modules = {m \in @ : m.index \notin (ids \ unmoved)}]

(***************************************************************************)
(* LinuxVirtualCable (platform::VirtualCable on Linux)                     *)
(***************************************************************************)
\* Error::PlatformError(..)
PlatformError == [tag |-> "Err", value |-> "PlatformError"]

\* CableConfig::default() with the buffer size asked for
CableConfigOf(buffer_size) ==
    [sample_rate |-> 48000, channels |-> 2, buffer_size |-> buffer_size,
     format |-> "F32LE", device_name |-> "Virtual Audio Cable"]

LinuxNew(config) ==
    [target_os |-> "linux",
     config |-> config,
     is_running |-> FALSE,
     triple_buffer |-> TripleNew(config.buffer_size),
     audio_processor |-> AudioProcessorNew(config.sample_rate, config.sample_rate,
                                           config.channels, config.format),
     samples_processed |-> 0,
     underruns |-> 0,
     overruns |-> 0,
     null_sink_id |-> None,
     active_loopbacks |-> <<>>]

\* faulty variant: a cable that is running started once more
LinuxStartAgain(c) == FALSE

\* if self.is_running.load(..) { return Err(..) }
LinuxStartRefused(c) == c.is_running

\* LinuxVirtualCable::start; sink, default_sink and loopback are how its
\* three pactl commands end (load-module module-null-sink, get-default-sink,
\* load-module module-loopback): a command that cannot be run makes the `?`
\* after it return at once
LinuxStart(c, p, sink, default_sink, loopback) ==
    IF LinuxStartRefused(c) THEN [cable |-> c, pulse |-> p, ret |-> PlatformError]
    ELSE IF sink # "succeeded" THEN [cable |-> c, pulse |-> p, ret |-> PlatformError]
    ELSE LET made == LoadModule(p, "module-null-sink", sink)
             with_sink == [c EXCEPT !.null_sink_id = Some(made.stdout)]
             lb == LoadModule(made.pulse, "module-loopback", loopback)
         IN  IF default_sink = "not_run"
             THEN [cable |-> with_sink, pulse |-> made.pulse, ret |-> PlatformError]
             ELSE IF default_sink = "failed"
             THEN [cable |-> [with_sink EXCEPT !.is_running = TRUE],
                   pulse |-> made.pulse, ret |-> Ok(0)]
             ELSE IF loopback = "not_run"
             THEN [cable |-> with_sink, pulse |-> made.pulse, ret |-> PlatformError]
             ELSE [cable |-> [with_sink EXCEPT
                                 !.active_loopbacks =
                                     IF loopback = "succeeded" THEN Append(@, lb.stdout) ELSE @,
                                 !.is_running = TRUE],
                   pulse |-> lb.pulse, ret |-> Ok(0)]

\* the elements of a Vec or an Option
Elements(s) == {s[i] : i \in 1..Len(s)}

\* LinuxVirtualCable::stop; unmoved are the modules whose unload-module did
\* not succeed (the result of each is dropped)
LinuxStop(c, p, unmoved) ==
    IF ~c.is_running THEN [cable |-> c, pulse |-> p, ret |-> PlatformError]
    ELSE [cable |-> [c EXCEPT !.active_loopbacks = <<>>,
                              !.null_sink_id = None,
                              !.is_running = FALSE],
          pulse |-> UnloadModules(p, Elements(c.active_loopbacks) \cup Elements(c.null_sink_id),
                                  unmoved),
          ret |-> Ok(0)]

\* is_running() of either cable
IsRunning(c) == c.is_running

\* LinuxVirtualCable::duplicate_output: load-module module-loopback
DuplicateOutput(c, p, loopback) ==
    LET lb == LoadModule(p, "module-loopback", loopback) IN
    IF loopback = "succeeded"
    THEN [cable |-> [c EXCEPT !.active_loopbacks = Append(@, lb.stdout)],
          pulse |-> lb.pulse, ret |-> Ok(0)]
    ELSE [cable |-> c, pulse |-> p, ret |-> PlatformError]

\* LinuxVirtualCable::stop_all_duplications
StopAllDuplications(c, p, unmoved) ==
    [cable |-> [c EXCEPT !.active_loopbacks = <<>>],
     pulse |-> UnloadModules(p, Elements(c.active_loopbacks), unmoved),
     ret |-> Ok(0)]

\* faulty variant: the samples handed in counted, not the samples handed out
ProcessedCountOfInput(input, processed) == Len(input)

\* self.samples_processed.fetch_add(processed as u64, ..)
ProcessedCount(input, processed) == processed

\* faulty variant: a cable that is not running processes all the same
ProcessAudioRefusedNever(c) == FALSE

\* if !self.is_running() { return Err(..) }
ProcessAudioRefused(c) == ~IsRunning(c)

\* LinuxVirtualCable::process_audio (the counter is a u64: no run of the
\* model comes near its limit)
ProcessAudio(c, input, output) ==
    LET res == TripleProcess(c.triple_buffer, input, output) IN
    IF ProcessAudioRefused(c) THEN [cable |-> c, out |-> output, ret |-> PlatformError]
    ELSE IF res.ret.tag = "Err" THEN [cable |-> [c EXCEPT !.triple_buffer = res.triple],
                                      out |-> res.out, ret |-> res.ret]
    ELSE [cable |-> [c EXCEPT !.triple_buffer = res.triple,
                              !.samples_processed = @ + ProcessedCount(input, res.ret.value)],
          out |-> res.out,
          ret |-> Ok(res.ret.value)]

\* LinuxVirtualCable::calculate_latency
CalculateLatency(c) ==
    FDiv(F64Bits,
         FMul(F64Bits, FFromInt(F64Bits, Stats(c.triple_buffer).resample_available),
              FFromInt(F64Bits, 1000)),
         FFromInt(F64Bits, c.config.sample_rate))

\* estimate_cpu_usage
EstimateCpuUsage(c) == IF c.is_running THEN FRoundRat(F64Bits, FALSE, BFromInt(1), BFromInt(2), 0) ELSE FZero

\* LinuxVirtualCable::get_stats: the CableStats snapshot, field by field
CableStatsFields ==
    {"is_running", "samples_processed", "underruns", "overruns", "latency_ms",
     "cpu_usage"}

GetStats(c) ==
    [field \in CableStatsFields |->
        CASE field = "is_running" -> IsRunning(c)
          [] field = "samples_processed" -> c.samples_processed
          [] field = "underruns" -> c.underruns
          [] field = "overruns" -> c.overruns
          [] field = "latency_ms" -> CalculateLatency(c)
          [] field = "cpu_usage" -> EstimateCpuUsage(c)]

(***************************************************************************)
(* WindowsVirtualCable (platform::VirtualCable on Windows)                 *)
(***************************************************************************)
WindowsNew(config) ==
    [target_os |-> "windows",
     config |-> config,
     is_running |-> FALSE,
     samples_processed |-> 0,
     underruns |-> 0,
     overruns |-> 0,
     driver_handle |-> None]

\* WindowsVirtualCable::start
WindowsStart(c) ==
    IF c.is_running THEN [cable |-> c, ret |-> PlatformError]
    ELSE [cable |-> [c EXCEPT !.is_running = TRUE], ret |-> Ok(0)]

\* WindowsVirtualCable::stop
WindowsStop(c) ==
    IF ~c.is_running THEN [cable |-> c, ret |-> PlatformError]
    ELSE [cable |-> [c EXCEPT !.is_running = FALSE], ret |-> Ok(0)]

(***************************************************************************)
(* State.                                                                  *)
(***************************************************************************)
VARIABLES
    \* the RingBuffer
    rb,
    \* the capacity RingBuffer::new was asked for
    requested,
    \* the last whole call [op, input, out, ret] (input is the slice handed
    \* in, out the output slice after a read), the cursors before it, and
    \* the operation of the call before it
    last, pre, prevOp,
    \* writer thread: program counter and locals of write
    wpc, w,
    \* reader thread: program counter and locals of read / clear
    rpc, r,
    \* every sample accepted by a completed write, in order of acceptance
    accepted,
    \* every sample returned by a completed read of the reader thread
    delivered,
    \* the TripleRingBuffer
    triple,
    \* the last call on it [op, input, out, ret, written, input_free_at_write]
    \* (out is the caller's output slice after process)
    tlast,
    \* whether anything but process has written into the public ring_output
    outside,
    \* the sum, over the process calls since TripleRingBuffer::new or the last
    \* clear_all, of min(input.len(), capacity)
    fed,
    \* the AudioProcessor
    processor,
    \* the caller's input slice of samples and its output slice
    inputSlice, outputSlice,
    \* the last call on the AudioProcessor [op, format, aligned, bytes, ret,
    \* source_format]: bytes is what convert_format returned or what
    \* bytes_to_samples was handed, ret what process or bytes_to_samples
    \* returned, source_format the format those bytes were made in
    acall,
    \* the Resampler and what its last call returned
    resampler, rcall,
    \* a third thread calling clear: its program counter, the write_pos it
    \* loaded, and two history fields: read_pos as it was when the call began
    \* and raced, whether a clear of this thread has overlapped a read
    cleaner,
    \* the finite input a producer feeds to write until all of it is accepted
    source,
    \* the VirtualCable, the platform audio service it drives, and the last
    \* call on the cable [op, ret, out] (out is the caller's output slice
    \* after process_audio)
    cable, pulse, clast

callVars == <<last, pre, prevOp>>
threadVars == <<wpc, w, rpc, r, delivered>>
tripleVars == <<triple, tlast, outside, fed>>
audioVars == <<processor, inputSlice, outputSlice, acall, resampler, rcall>>
cableVars == <<cable, pulse, clast>>
vars ==
    <<rb, requested, callVars, threadVars, accepted, tripleVars, audioVars, cleaner,
      source, cableVars>>

Cursors(b) == [write_pos |-> b.write_pos, read_pos |-> b.read_pos]

\* locals of the call a thread is in; steps counts the steps the call has
\* taken, polled is what the thread's last available / free_space returned
WIdle ==
    [samples |-> <<>>, write_pos |-> 0, read_pos |-> 0, to_write |-> 0, i |-> 0,
     steps |-> 0, polled |-> 0]
RIdle ==
    [out |-> <<>>, read_pos |-> 0, write_pos |-> 0, to_read |-> 0, i |-> 0,
     steps |-> 0, polled |-> 0]

\* the capacities asked for: the small ones and usize::MAX
Requests == (0..MaxReqCap) \cup {UsizeMod - 1}

\* no buffer: RingBuffer::new panicked
NoBuffer ==
    [data |-> <<>>, write_pos |-> 0, read_pos |-> 0, capacity |-> 0, mask |-> 0]

\* no TripleRingBuffer: the first RingBuffer::new of TripleRingBuffer::new
\* panicked
NoTriple ==
    [ring_input |-> NoBuffer, ring_resample |-> NoBuffer, ring_output |-> NoBuffer]

TCall(op, input, out, ret, written, input_free_at_write) ==
    [op |-> op, input |-> input, out |-> out, ret |-> ret, written |-> written,
     input_free_at_write |-> input_free_at_write]

ACall(op, format, aligned, bytes, ret, source_format) ==
    [op |-> op, format |-> format, aligned |-> aligned, bytes |-> bytes,
     ret |-> ret, source_format |-> source_format]

\* no call made yet on the AudioProcessor
ACallNew == ACall("new", "F32LE", TRUE, <<>>, Ok(0), "F32LE")

\* let processor = AudioProcessor::default() and
\* let resampler = Resampler::new(48000, 48000, 2), with nothing to process
AudioIdle ==
    /\ processor = AudioProcessorDefault
    /\ inputSlice = <<>>
    /\ outputSlice = <<>>
    /\ acall = ACallNew
    /\ resampler = ResamplerNew(48000, 48000, 2)
    /\ rcall = Ok(<<>>)

\* the third thread outside any call
CleanerIdle == [pc |-> "idle", write_pos |-> 0, read_pos |-> 0, raced |-> FALSE]

CCall(op, ret, out) == [op |-> op, ret |-> ret, out |-> out]

\* no call made yet on the cable
CCallNew == CCall("new", Ok(0), <<>>)

\* let cable = VirtualCable::new(config), left alone
CableIdle ==
    /\ cable = LinuxNew(CableConfigOf(1))
    /\ pulse = PulseNew
    /\ clast = CCallNew

\* let buffer = RingBuffer::new(c) and let triple = TripleRingBuffer::new(c):
\* the buffers, or with overflow checks on and a request whose next power of
\* two overflows, the panic
Init ==
    /\ requested \in Requests
    /\ \/ /\ rb = RbNew(requested)
          /\ triple = TripleNew(requested)
          /\ last = [op |-> "new", input |-> <<>>, out |-> <<>>, ret |-> 0]
       \/ /\ NextPowerOfTwoOverflows(requested)
          /\ rb = NoBuffer
          /\ triple = NoTriple
          /\ last = [op |-> "new_panicked", input |-> <<>>, out |-> <<>>, ret |-> 0]
    /\ tlast = TCall("new", <<>>, <<>>, Ok(0), 0, 0)
    /\ outside = FALSE
    /\ pre = [write_pos |-> 0, read_pos |-> 0]
    /\ prevOp = "none"
    /\ accepted = <<>>
    /\ wpc = "idle" /\ w = WIdle
    /\ rpc = "idle" /\ r = RIdle
    /\ delivered = <<>>
    /\ fed = 0
    /\ cleaner = CleanerIdle
    /\ source = <<>>
    /\ AudioIdle
    /\ CableIdle

\* RingBuffer::new returned a buffer
Constructed == last.op # "new_panicked"

(***************************************************************************)
(* Whole calls: buffer.write(&samples), buffer.read(&mut output),          *)
(* buffer.clear()                                                          *)
(***************************************************************************)
Write(samples) ==
    LET res == RbWrite(rb, samples) IN
    /\ Constructed
    /\ res.rb.write_pos <= MaxTotal
    /\ rb' = res.rb
    /\ last' = [op |-> "write", input |-> samples, out |-> <<>>, ret |-> res.ret]
    /\ pre' = Cursors(rb)
    /\ prevOp' = last.op
    /\ accepted' = accepted \o SubSeq(samples, 1, res.ret)
    /\ UNCHANGED <<cableVars, cleaner, source, audioVars, tripleVars, requested, threadVars>>

Read(output) ==
    LET res == RbRead(rb, output) IN
    /\ Constructed
    /\ rb' = res.rb
    /\ last' = [op |-> "read", input |-> output, out |-> res.out, ret |-> res.ret]
    /\ pre' = Cursors(rb)
    /\ prevOp' = last.op
    /\ UNCHANGED <<cableVars, cleaner, source, audioVars, tripleVars, requested, threadVars, accepted>>

Clear ==
    /\ Constructed
    /\ rb' = RbClear(rb)
    /\ last' = [op |-> "clear", input |-> <<>>, out |-> <<>>, ret |-> 0]
    /\ pre' = Cursors(rb)
    /\ prevOp' = last.op
    /\ UNCHANGED <<cableVars, cleaner, source, audioVars, tripleVars, requested, threadVars, accepted>>

Next ==
    \/ \E samples \in Inputs : Write(samples)
    \/ \E output \in Outputs : Read(output)
    \/ Clear

Spec == Init /\ [][Next]_vars

(***************************************************************************)
(* RingBuffer::write, one step per cursor load, slot copy and cursor store *)
(***************************************************************************)
\* let write_pos = self.write_pos.load(Ordering::Relaxed)
WLoadWritePos(samples) ==
    /\ wpc = "idle"
    /\ Constructed
    /\ Len(accepted) + Len(samples) <= MaxTotal
    /\ w' = [WIdle EXCEPT !.samples = samples, !.write_pos = rb.write_pos,
                       !.steps = 1, !.polled = w.polled]
    /\ wpc' = "load_read_pos"
    /\ UNCHANGED <<cableVars, cleaner, source, audioVars, tripleVars, rb, requested, callVars, rpc, r, delivered, accepted>>

\* faulty variant: a write that finds no room loads read_pos again until the
\* reader has made some
WLoadReadPosSpin ==
    /\ wpc = "load_read_pos"
    /\ LET n == ToWrite(w.samples, WriteAvailable(rb, w.write_pos, rb.read_pos)) IN
       IF n = 0 /\ Len(w.samples) > 0
       THEN /\ wpc' = "load_read_pos"
            /\ w' = [w EXCEPT !.steps = w.steps + 1]
       ELSE IF n = 0
       THEN /\ wpc' = "idle"
            /\ w' = WIdle
       ELSE /\ wpc' = "copy"
            /\ w' = [w EXCEPT !.read_pos = rb.read_pos, !.to_write = n, !.i = 0,
                            !.steps = w.steps + 1]
    /\ UNCHANGED <<cableVars, cleaner, source, audioVars, tripleVars, rb, requested, callVars, rpc, r, delivered, accepted>>

\* let read_pos = self.read_pos.load(Ordering::Acquire), the computation of
\* to_write and the early return
WLoadReadPos ==
    /\ wpc = "load_read_pos"
    /\ LET n == ToWrite(w.samples, WriteAvailable(rb, w.write_pos, rb.read_pos)) IN
       IF n = 0
       THEN /\ wpc' = "idle"
            /\ w' = WIdle
       ELSE /\ wpc' = "copy"
            /\ w' = [w EXCEPT !.read_pos = rb.read_pos, !.to_write = n, !.i = 0,
                            !.steps = w.steps + 1]
    /\ UNCHANGED <<cableVars, cleaner, source, audioVars, tripleVars, rb, requested, callVars, rpc, r, delivered, accepted>>

\* self.data[idx] = sample, one slot
WCopy ==
    /\ wpc = "copy"
    /\ rb' = [rb EXCEPT !.data[SlotIndex(rb, w.write_pos, w.i)] = w.samples[w.i + 1]]
    /\ w' = [w EXCEPT !.i = w.i + 1, !.steps = w.steps + 1]
    /\ wpc' = IF w.i + 1 >= w.to_write THEN "store" ELSE "copy"
    /\ UNCHANGED <<cableVars, cleaner, source, audioVars, tripleVars, requested, callVars, rpc, r, delivered, accepted>>

\* self.write_pos.store(write_pos + to_write, Ordering::Release); to_write
\* is returned
WStore ==
    /\ wpc = "store"
    /\ rb' = [rb EXCEPT !.write_pos = WritePosAfter(w.write_pos, w.to_write)]
    /\ accepted' = accepted \o SubSeq(w.samples, 1, w.to_write)
    /\ wpc' = "idle"
    /\ w' = WIdle
    /\ UNCHANGED <<cableVars, cleaner, source, audioVars, tripleVars, requested, callVars, rpc, r, delivered>>

(***************************************************************************)
(* RingBuffer::read, one step per cursor load, slot copy and cursor store  *)
(***************************************************************************)
\* let read_pos = self.read_pos.load(Ordering::Relaxed)
RLoadReadPos(output) ==
    /\ rpc = "idle"
    /\ Constructed
    /\ r' = [RIdle EXCEPT !.out = output, !.read_pos = rb.read_pos,
                       !.steps = 1, !.polled = r.polled]
    /\ rpc' = "load_write_pos"
    /\ UNCHANGED <<cableVars, cleaner, source, audioVars, tripleVars, rb, requested, callVars, wpc, w, delivered, accepted>>

\* let write_pos = self.write_pos.load(Ordering::Acquire), the computation
\* of to_read and the early return
RLoadWritePos ==
    /\ rpc = "load_write_pos"
    /\ LET n == ToRead(r.out, ReadAvailable(rb, r.read_pos, rb.write_pos)) IN
       IF n = 0
       THEN /\ rpc' = "idle"
            /\ r' = RIdle
       ELSE /\ rpc' = "copy"
            /\ r' = [r EXCEPT !.write_pos = rb.write_pos, !.to_read = n, !.i = 0,
                            !.steps = r.steps + 1]
    /\ UNCHANGED <<cableVars, cleaner, source, audioVars, tripleVars, rb, requested, callVars, wpc, w, delivered, accepted>>

\* *out = self.data[idx], one slot
RCopy ==
    /\ rpc = "copy"
    /\ r' = [r EXCEPT !.out[r.i + 1] = rb.data[SlotIndex(rb, r.read_pos, r.i)],
                      !.i = r.i + 1, !.steps = r.steps + 1]
    /\ rpc' = IF r.i + 1 >= r.to_read THEN "store" ELSE "copy"
    /\ UNCHANGED <<cableVars, cleaner, source, audioVars, tripleVars, rb, requested, callVars, wpc, w, delivered, accepted>>

\* self.read_pos.store(read_pos + to_read, Ordering::Release); to_read is
\* returned
RStore ==
    /\ rpc = "store"
    /\ rb' = [rb EXCEPT !.read_pos = ReadPosAfter(r.read_pos, r.to_read)]
    /\ delivered' = delivered \o SubSeq(r.out, 1, r.to_read)
    /\ rpc' = "idle"
    /\ r' = RIdle
    /\ UNCHANGED <<cableVars, cleaner, source, audioVars, tripleVars, requested, callVars, wpc, w, accepted>>

(***************************************************************************)
(* RingBuffer::clear called by the reader thread, one step per access      *)
(***************************************************************************)
\* let write_pos = self.write_pos.load(Ordering::Relaxed)
CLoadWritePos ==
    /\ rpc = "idle"
    /\ Constructed
    /\ r' = [RIdle EXCEPT !.write_pos = rb.write_pos, !.steps = 1]
    /\ rpc' = "clear_store"
    /\ UNCHANGED <<cableVars, cleaner, source, audioVars, tripleVars, rb, requested, callVars, wpc, w, delivered, accepted>>

\* self.read_pos.store(write_pos, Ordering::Release)
CStore ==
    /\ rpc = "clear_store"
    /\ rb' = [rb EXCEPT !.read_pos = ClearReadPos(r.write_pos)]
    /\ rpc' = "idle"
    /\ r' = RIdle
    /\ UNCHANGED <<cableVars, cleaner, source, audioVars, tripleVars, requested, callVars, wpc, w, delivered, accepted>>

WriterStep ==
    \/ \E samples \in Inputs : WLoadWritePos(samples)
    \/ WLoadReadPos
    \/ WCopy
    \/ WStore

ReaderStep ==
    \/ \E output \in Outputs : RLoadReadPos(output)
    \/ RLoadWritePos
    \/ RCopy
    \/ RStore

ClearStep ==
    \/ CLoadWritePos
    \/ CStore

\* one writer thread (write) and one reader thread (read)
NextSPSC == WriterStep \/ ReaderStep

SpecSPSC == Init /\ [][NextSPSC]_vars

\* one writer thread (write) and one reader thread (read, clear)
NextSPSCClear == WriterStep \/ ReaderStep \/ ClearStep

SpecSPSCClear == Init /\ [][NextSPSCClear]_vars

(***************************************************************************)
(* RingBuffer::available and RingBuffer::free_space called by either       *)
(* thread, one step per cursor load                                        *)
(***************************************************************************)
PollFns == {"available", "free_space"}

\* faulty variant: both queries answer the capacity
PollResultWholeBuffer(fn, write_pos) == rb.capacity

\* what the call returns from the write_pos it loaded first and the read_pos
\* it loads now
PollResult(fn, write_pos) ==
    LET seen == [rb EXCEPT !.write_pos = write_pos] IN
    IF fn = "free_space" THEN RbFreeSpace(seen) ELSE RbAvailable(seen)

\* let write_pos = self.write_pos.load(Ordering::Relaxed), in the writer
WPollLoadWritePos(fn) ==
    /\ wpc = "idle"
    /\ Constructed
    /\ w' = [WIdle EXCEPT !.write_pos = rb.write_pos, !.steps = 1]
    /\ wpc' = fn
    /\ UNCHANGED <<cableVars, cleaner, source, audioVars, tripleVars, rb, requested, callVars, rpc, r, delivered, accepted>>

\* let read_pos = self.read_pos.load(Ordering::Acquire); write_pos - read_pos
\* (subtracted from the capacity by free_space) is returned
WPollLoadReadPos ==
    /\ wpc \in PollFns
    /\ w' = [WIdle EXCEPT !.polled = PollResult(wpc, w.write_pos)]
    /\ wpc' = "idle"
    /\ UNCHANGED <<cableVars, cleaner, source, audioVars, tripleVars, rb, requested, callVars, rpc, r, delivered, accepted>>

\* the same two loads in the reader
RPollLoadWritePos(fn) ==
    /\ rpc = "idle"
    /\ Constructed
    /\ r' = [RIdle EXCEPT !.write_pos = rb.write_pos, !.steps = 1]
    /\ rpc' = fn
    /\ UNCHANGED <<cableVars, cleaner, source, audioVars, tripleVars, rb, requested, callVars, wpc, w, delivered, accepted>>

RPollLoadReadPos ==
    /\ rpc \in PollFns
    /\ r' = [RIdle EXCEPT !.polled = PollResult(rpc, r.write_pos)]
    /\ rpc' = "idle"
    /\ UNCHANGED <<cableVars, cleaner, source, audioVars, tripleVars, rb, requested, callVars, wpc, w, delivered, accepted>>

WPollStep ==
    \/ \E fn \in PollFns : WPollLoadWritePos(fn)
    \/ WPollLoadReadPos

RPollStep ==
    \/ \E fn \in PollFns : RPollLoadWritePos(fn)
    \/ RPollLoadReadPos

\* every step the writer thread can take, and every step the reader thread
WriterThread == WriterStep \/ WPollStep
ReaderThread == ReaderStep \/ ClearStep \/ RPollStep

\* slices of every length holding one value: no step of any call looks at
\* the value of a sample
SameValueInputs == {[i \in 1..k |-> 1] : k \in 0..MaxLen}

\* one writer thread (write) and one reader thread (read, clear), each also
\* calling available and free_space
NextPolled ==
    \/ \E samples \in SameValueInputs : WLoadWritePos(samples)
    \/ WLoadReadPos
    \/ WCopy
    \/ WStore
    \/ ReaderStep
    \/ ClearStep
    \/ WPollStep
    \/ RPollStep

SpecPolled == Init /\ [][NextPolled]_vars

\* one writer thread that calls free_space and write, one reader thread that
\* calls available and read; clear is never called
NextSized ==
    \/ \E samples \in SameValueInputs : WLoadWritePos(samples)
    \/ WLoadReadPos
    \/ WCopy
    \/ WStore
    \/ ReaderStep
    \/ WPollLoadWritePos("free_space")
    \/ WPollLoadReadPos
    \/ RPollLoadWritePos("available")
    \/ RPollLoadReadPos

SpecSized == Init /\ [][NextSized]_vars

(***************************************************************************)
(* Whole calls on the TripleRingBuffer: triple.process(&input, &mut        *)
(* output), triple.clear_all(), and a write into the public output stage,  *)
(* triple.ring_output.write(&samples), by the code that owns the triple    *)
(***************************************************************************)
Process(input, output) ==
    LET res == TripleProcess(triple, input, output) IN
    /\ Constructed
    /\ res.triple.ring_input.write_pos <= MaxProcessed
    /\ triple' = res.triple
    /\ tlast' = TCall("process", input, res.out, res.ret, res.written,
                      res.input_free_at_write)
    /\ fed' = fed + Min(Len(input), triple.ring_input.capacity)
    /\ UNCHANGED <<cableVars, cleaner, source, audioVars, outside, rb, requested, callVars, threadVars, accepted>>

ClearAll ==
    /\ Constructed
    /\ triple' = TripleClearAll(triple)
    /\ tlast' = TCall("clear_all", <<>>, <<>>, Ok(0), 0, 0)
    /\ fed' = 0
    /\ UNCHANGED <<cableVars, cleaner, source, audioVars, outside, rb, requested, callVars, threadVars, accepted>>

OutputStageWrite(samples) ==
    LET res == RbWrite(triple.ring_output, samples) IN
    /\ Constructed
    /\ res.rb.write_pos <= MaxOutside
    /\ triple' = [triple EXCEPT !.ring_output = res.rb]
    /\ tlast' = TCall("output_write", samples, <<>>, Ok(res.ret), 0, 0)
    /\ outside' = TRUE
    /\ UNCHANGED <<cableVars, cleaner, source, audioVars, fed, rb, requested, callVars, threadVars, accepted>>

NextTriple ==
    \/ \E input \in Ramps, output \in Outputs : Process(input, output)
    \/ ClearAll
    \/ \E samples \in Ramps : OutputStageWrite(samples)

SpecTriple == Init /\ [][NextTriple]_vars

(***************************************************************************)
(* AudioProcessor and Resampler: the calls are functions of the object and *)
(* the slices handed in, so each behaviour fixes the object and the slices *)
(* at the start and the actions make the calls on them.                    *)
(***************************************************************************)
\* the ring buffers of the specifications below, which make no call on them
RingsIdle ==
    /\ requested = 1
    /\ rb = RbNew(requested)
    /\ triple = TripleNew(requested)
    /\ last = [op |-> "new", input |-> <<>>, out |-> <<>>, ret |-> 0]
    /\ tlast = TCall("new", <<>>, <<>>, Ok(0), 0, 0)
    /\ outside = FALSE
    /\ pre = [write_pos |-> 0, read_pos |-> 0]
    /\ prevOp = "none"
    /\ accepted = <<>>
    /\ wpc = "idle" /\ w = WIdle
    /\ rpc = "idle" /\ r = RIdle
    /\ delivered = <<>>
    /\ fed = 0
    /\ cleaner = CleanerIdle
    /\ source = <<>>

ringVars == <<rb, requested, callVars, threadVars, accepted, tripleVars, cleaner, source>>

\* <<input rate, output rate>>: equal rates, the 1:2 and 2:1 ratios, the
\* usual 44100 / 48000 conversions, and two pairs of small rates whose
\* quotient is not a binary fraction
RatePairs ==
    {<<48000, 48000>>, <<44100, 44100>>, <<48000, 96000>>, <<44100, 88200>>,
     <<96000, 48000>>, <<44100, 48000>>, <<48000, 44100>>, <<7, 9>>, <<11, 15>>}

\* an input slice of k samples, all different: 1/d, 2/d, ..
SampleRamp(k) == [j \in 1..k |-> F32Lit(j, 2 * MaxSamples)]
SampleRamps == {SampleRamp(k) : k \in 0..MaxSamples}

\* what the caller's output slice holds before the call
SliceFill == F32Lit(-1, 1)
Slice(k) == [i \in 1..k |-> SliceFill]
Slices == {Slice(k) : k \in 0..MaxSlots}

\* processor.process(&input, &mut output)
AProcess ==
    LET res == AudioProcess(processor, inputSlice, outputSlice) IN
    /\ outputSlice' = res.out
    /\ acall' = ACall("process", processor.format, TRUE, <<>>, res.ret, processor.format)
    /\ UNCHANGED <<cableVars, ringVars, processor, inputSlice, resampler, rcall>>

InitProcess ==
    /\ RingsIdle
    /\ CableIdle
    /\ \E rates \in RatePairs :
           processor = AudioProcessorNew(rates[1], rates[2], 2, "F32LE")
    /\ inputSlice \in SampleRamps
    /\ outputSlice \in Slices
    /\ acall = ACallNew
    /\ resampler = ResamplerNew(48000, 48000, 2)
    /\ rcall = Ok(<<>>)

NextProcess == AProcess

SpecProcess == InitProcess /\ [][NextProcess]_vars

\* the samples handed to convert_format: multiples of 1 / SampleSteps from
\* -2 to 2, 10 and -10, and 0.897 and -0.897, whose products with 32767.0
\* round to an integer in f32
Palette ==
    {F32Lit(n, SampleSteps) : n \in (-2 * SampleSteps)..(2 * SampleSteps)}
    \cup {F32Lit(10, 1), F32Lit(-10, 1), F32Lit(897, 1000), F32Lit(-897, 1000)}

\* the inputs of test_format_conversion_f32_to_s16 and of
\* test_audio_format_conversion_roundtrip
ConversionTestInput == <<F32Lit(1, 1), F32Lit(0, 1), F32Lit(-1, 1), F32Lit(1, 2)>>
RoundTripTestInput ==
    <<F32Lit(0, 1), F32Lit(1, 2), F32Lit(-1, 2), F32Lit(1, 1), F32Lit(-1, 1),
      F32Lit(1, 4)>>

\* the input of test_clipping_in_format_conversion
ClippingTestInput == <<F32Lit(2, 1), F32Lit(-2, 1), F32Lit(10, 1), F32Lit(-10, 1)>>

FormatInputs ==
    {<<>>, ConversionTestInput, RoundTripTestInput, ClippingTestInput}
    \cup {<<x>> : x \in Palette}

\* let bytes = processor.convert_format(&input, format)
AConvertFormat(format) ==
    /\ acall' = ACall("convert_format", format, TRUE,
                      ConvertFormat(inputSlice, format), Ok(0), format)
    /\ UNCHANGED <<cableVars, ringVars, processor, inputSlice, outputSlice, resampler, rcall>>

\* processor.bytes_to_samples(&bytes, format) on the bytes convert_format
\* returned, at an address that is a multiple of 4 or not
ABytesToSamples(format, aligned) ==
    /\ acall.op = "convert_format"
    /\ \E outcome \in BytesToSamples(acall.bytes, format, aligned) :
           acall' = ACall("bytes_to_samples", format, aligned, acall.bytes,
                          outcome, acall.format)
    /\ UNCHANGED <<cableVars, ringVars, processor, inputSlice, outputSlice, resampler, rcall>>

InitFormat ==
    /\ RingsIdle
    /\ CableIdle
    /\ processor = AudioProcessorDefault
    /\ inputSlice \in FormatInputs
    /\ outputSlice = <<>>
    /\ acall = ACallNew
    /\ resampler = ResamplerNew(48000, 48000, 2)
    /\ rcall = Ok(<<>>)

NextFormat ==
    \/ \E format \in Formats : AConvertFormat(format)
    \/ \E format \in Formats, aligned \in BOOLEAN : ABytesToSamples(format, aligned)

SpecFormat == InitFormat /\ [][NextFormat]_vars

\* the input of test_resampler
ResamplerTestInput == <<F32Lit(0, 1), F32Lit(1, 1), F32Lit(0, 1), F32Lit(-1, 1)>>

\* multiples of 1 / SampleSteps from -1 to 1
UnitPalette == {F32Lit(n, SampleSteps) : n \in (-SampleSteps)..SampleSteps}

\* an input slice of k samples, alternately -1.0 and 0.3
Sawtooth(k) == [j \in 1..k |-> IF j % 2 = 1 THEN F32Lit(-1, 1) ELSE F32Lit(3, 10)]
Sawteeth == {Sawtooth(k) : k \in 0..MaxSamples}

ResamplerInputs ==
    SampleRamps \cup Sawteeth \cup {ResamplerTestInput}
    \cup {<<x, y>> : x, y \in UnitPalette}

\* let output = resampler.process(&input)
RProcess ==
    /\ rcall' = ResamplerProcess(resampler, inputSlice)
    /\ acall' = ACall("resampler_process", "F32LE", TRUE, <<>>, Ok(0), "F32LE")
    /\ UNCHANGED <<cableVars, ringVars, processor, inputSlice, outputSlice, resampler>>

InitResampler ==
    /\ RingsIdle
    /\ CableIdle
    /\ processor = AudioProcessorDefault
    /\ inputSlice \in ResamplerInputs
    /\ outputSlice = <<>>
    /\ acall = ACallNew
    /\ \E rates \in RatePairs : resampler = ResamplerNew(rates[1], rates[2], 2)
    /\ rcall = Ok(<<>>)

NextResampler == RProcess

SpecResampler == InitResampler /\ [][NextResampler]_vars

\* output slices with no room, with room for the input and with room for
\* every output
StrategySlices == {Slice(0), Slice(MaxSamples), Slice(MaxSlots)}

\* an AudioProcessor and a Resampler built for the same pair of rates and
\* handed the same input slice
InitStrategies ==
    /\ RingsIdle
    /\ CableIdle
    /\ \E rates \in RatePairs :
           /\ processor = AudioProcessorNew(rates[1], rates[2], 2, "F32LE")
           /\ resampler = ResamplerNew(rates[1], rates[2], 2)
    /\ inputSlice \in SampleRamps
    /\ outputSlice \in StrategySlices
    /\ acall = ACallNew
    /\ rcall = Ok(<<>>)

NextStrategies == AProcess \/ RProcess

SpecStrategies == InitStrategies /\ [][NextStrategies]_vars

(***************************************************************************)
(* Whole calls on one VirtualCable by its owner.  The crate builds the     *)
(* Linux cable or the Windows cable (cfg_if on the target); a behaviour    *)
(* has one of them from the start.                                         *)
(***************************************************************************)
\* the buffer sizes a cable is configured with
CableBufferSizes == {1, 2}

\* the loopback modules the cable holds the index of
HeldLoopbacks ==
    IF cable.target_os = "linux" THEN Elements(cable.active_loopbacks) ELSE {}

\* the modules the cable holds the index of: those stop tries to unload
Held ==
    IF cable.target_os = "linux"
    THEN HeldLoopbacks \cup Elements(cable.null_sink_id)
    ELSE {}

\* start runs its pactl commands one after the other and stops at the first
\* that makes it return: the outcomes of the commands it does not reach are
\* of no account and are taken as "succeeded"
Reached(sink, default_sink, loopback) ==
    /\ (cable.is_running \/ sink # "succeeded") => default_sink = "succeeded"
    /\ (cable.is_running \/ sink # "succeeded" \/ default_sink # "succeeded")
           => loopback = "succeeded"
    /\ cable.is_running => sink = "succeeded"

\* cable.start() on Linux
CableStart(sink, default_sink, loopback) ==
    LET res == LinuxStart(cable, pulse, sink, default_sink, loopback) IN
    /\ cable.target_os = "linux"
    /\ Reached(sink, default_sink, loopback)
    /\ res.pulse.next_index <= MaxModules + 1
    /\ cable' = res.cable
    /\ pulse' = res.pulse
    /\ clast' = CCall("start", res.ret, <<>>)
    /\ UNCHANGED <<ringVars, audioVars>>

\* cable.stop() on Linux
CableStop(unmoved) ==
    LET res == LinuxStop(cable, pulse, unmoved) IN
    /\ cable.target_os = "linux"
    /\ cable' = res.cable
    /\ pulse' = res.pulse
    /\ clast' = CCall("stop", res.ret, <<>>)
    /\ UNCHANGED <<ringVars, audioVars>>

\* cable.process_audio(&input, &mut output)
CableProcessAudio(input, output) ==
    LET res == ProcessAudio(cable, input, output) IN
    /\ cable.target_os = "linux"
    /\ res.cable.triple_buffer.ring_input.write_pos <= MaxProcessed
    /\ cable' = res.cable
    /\ clast' = CCall("process_audio", res.ret, res.out)
    /\ UNCHANGED <<ringVars, audioVars, pulse>>

\* cable.duplicate_output(source_name, target_name)
CableDuplicateOutput(loopback) ==
    LET res == DuplicateOutput(cable, pulse, loopback) IN
    /\ cable.target_os = "linux"
    /\ res.pulse.next_index <= MaxModules + 1
    /\ cable' = res.cable
    /\ pulse' = res.pulse
    /\ clast' = CCall("duplicate_output", res.ret, <<>>)
    /\ UNCHANGED <<ringVars, audioVars>>

\* cable.stop_all_duplications()
CableStopAllDuplications(unmoved) ==
    LET res == StopAllDuplications(cable, pulse, unmoved) IN
    /\ cable.target_os = "linux"
    /\ cable' = res.cable
    /\ pulse' = res.pulse
    /\ clast' = CCall("stop_all_duplications", res.ret, <<>>)
    /\ UNCHANGED <<ringVars, audioVars>>

\* cable.start() on Windows
WindowsCableStart ==
    LET res == WindowsStart(cable) IN
    /\ cable.target_os = "windows"
    /\ cable' = res.cable
    /\ clast' = CCall("start", res.ret, <<>>)
    /\ UNCHANGED <<ringVars, audioVars, pulse>>

\* cable.stop() on Windows
WindowsCableStop ==
    LET res == WindowsStop(cable) IN
    /\ cable.target_os = "windows"
    /\ cable' = res.cable
    /\ clast' = CCall("stop", res.ret, <<>>)
    /\ UNCHANGED <<ringVars, audioVars, pulse>>

InitCable ==
    /\ RingsIdle
    /\ AudioIdle
    /\ \E buffer_size \in CableBufferSizes :
           \/ cable = LinuxNew(CableConfigOf(buffer_size))
           \/ cable = WindowsNew(CableConfigOf(buffer_size))
    /\ pulse = PulseNew
    /\ clast = CCallNew

NextCable ==
    \/ \E sink, default_sink, loopback \in PactlOutcomes :
           CableStart(sink, default_sink, loopback)
    \/ \E unmoved \in SUBSET Held : CableStop(unmoved)
    \/ \E input \in Ramps, output \in Outputs : CableProcessAudio(input, output)
    \/ \E loopback \in PactlOutcomes : CableDuplicateOutput(loopback)
    \/ \E unmoved \in SUBSET HeldLoopbacks : CableStopAllDuplications(unmoved)
    \/ WindowsCableStart
    \/ WindowsCableStop

SpecCable == InitCable /\ [][NextCable]_vars

(***************************************************************************)
(* The writer and the reader thread on a buffer that has been in use for   *)
(* long: the writes and reads before have moved both cursors to within     *)
(* MaxTotal of usize::MAX, everything written has been read, and the slots *)
(* hold old samples.  The cursor arithmetic wraps, as it does where        *)
(* overflow checks are off (the release profile).                          *)
(***************************************************************************)
WrapStarts == (UsizeMod - MaxTotal)..(UsizeMod - 1)

\* RingBuffer::new(c) after pos samples have gone through it, the last ones
\* all of the value NumVals
Worn(c, pos) ==
    [RbNew(c) EXCEPT !.write_pos = pos, !.read_pos = pos,
                     !.data = [i \in DOMAIN @ |-> NumVals]]

InitWrap ==
    /\ requested \in 0..MaxReqCap
    /\ \E pos \in WrapStarts : rb = Worn(requested, pos)
    /\ triple = TripleNew(requested)
    /\ last = [op |-> "new", input |-> <<>>, out |-> <<>>, ret |-> 0]
    /\ tlast = TCall("new", <<>>, <<>>, Ok(0), 0, 0)
    /\ outside = FALSE
    /\ pre = [write_pos |-> 0, read_pos |-> 0]
    /\ prevOp = "none"
    /\ accepted = <<>>
    /\ wpc = "idle" /\ w = WIdle
    /\ rpc = "idle" /\ r = RIdle
    /\ delivered = <<>>
    /\ fed = 0
    /\ cleaner = CleanerIdle
    /\ source = <<>>
    /\ AudioIdle
    /\ CableIdle

SpecWrap == InitWrap /\ [][NextSPSC]_vars

(***************************************************************************)
(* A producer that hands write the part of a finite input not yet accepted *)
(* until none is left, and a consumer that hands read a non-empty output   *)
(* slice again and again, on a buffer RingBuffer::new returned; clear is   *)
(* never called.  Both threads are scheduled fairly: a thread that can     *)
(* take a step does take one.                                              *)
(***************************************************************************)
Sources == SeqsUpTo(Vals, MaxTotal)

\* what the producer still has to hand over
Remainder == SubSeq(source, Len(accepted) + 1, Len(source))

InitRetry ==
    /\ requested \in Requests
    /\ rb = RbNew(requested)
    /\ triple = TripleNew(requested)
    /\ last = [op |-> "new", input |-> <<>>, out |-> <<>>, ret |-> 0]
    /\ tlast = TCall("new", <<>>, <<>>, Ok(0), 0, 0)
    /\ outside = FALSE
    /\ pre = [write_pos |-> 0, read_pos |-> 0]
    /\ prevOp = "none"
    /\ accepted = <<>>
    /\ wpc = "idle" /\ w = WIdle
    /\ rpc = "idle" /\ r = RIdle
    /\ delivered = <<>>
    /\ fed = 0
    /\ cleaner = CleanerIdle
    /\ source \in Sources
    /\ AudioIdle
    /\ CableIdle

\* while remaining > 0 { remaining -= buffer.write(&source[accepted..]) }
ProducerCall ==
    /\ Remainder # <<>>
    /\ WLoadWritePos(Remainder)

ProducerStep ==
    \/ ProducerCall
    \/ WLoadReadPos
    \/ WCopy
    \/ WStore

\* loop { buffer.read(&mut output) } with output.len() > 0
ConsumerCall ==
    \E output \in Outputs \ {<<>>} : RLoadReadPos(output)

ConsumerStep ==
    \/ ConsumerCall
    \/ RLoadWritePos
    \/ RCopy
    \/ RStore

NextRetry == ProducerStep \/ ConsumerStep

SpecRetry ==
    /\ InitRetry
    /\ [][NextRetry]_vars
    /\ WF_vars(ProducerStep)
    /\ WF_vars(ConsumerStep)

(***************************************************************************)
(* RingBuffer::clear called by a third thread, neither the writer nor the  *)
(* reader, one step per access (clear takes &self, as read does).          *)
(***************************************************************************)
\* let write_pos = self.write_pos.load(Ordering::Relaxed)
CleanerLoadWritePos ==
    /\ cleaner.pc = "idle"
    /\ Constructed
    /\ cleaner' = [pc |-> "clear_store", write_pos |-> rb.write_pos,
                   read_pos |-> rb.read_pos,
                   raced |-> cleaner.raced \/ rpc # "idle"]
    /\ UNCHANGED <<rb, requested, callVars, threadVars, accepted, tripleVars,
                   audioVars, source, cableVars>>

\* self.read_pos.store(write_pos, Ordering::Release); the clear has
\* overlapped a read if the reader is inside one now or was when the clear
\* began, or if read_pos has moved since
CleanerStore ==
    /\ cleaner.pc = "clear_store"
    /\ rb' = [rb EXCEPT !.read_pos = ClearReadPos(cleaner.write_pos)]
    /\ cleaner' = [CleanerIdle EXCEPT
                      !.raced = cleaner.raced \/ rpc # "idle"
                                \/ rb.read_pos # cleaner.read_pos]
    /\ UNCHANGED <<requested, callVars, threadVars, accepted, tripleVars,
                   audioVars, source, cableVars>>

CleanerStep ==
    \/ CleanerLoadWritePos
    \/ CleanerStore

\* one writer thread (write), one reader thread (read) and a third thread
\* (clear); the slices written hold one value, as no step here looks at the
\* value of a sample
NextThirdClear ==
    \/ \E samples \in SameValueInputs : WLoadWritePos(samples)
    \/ WLoadReadPos
    \/ WCopy
    \/ WStore
    \/ ReaderStep
    \/ CleanerStep

SpecThirdClear == Init /\ [][NextThirdClear]_vars

(***************************************************************************)
(* Properties.                                                             *)
(***************************************************************************)
IsPrefix(a, b) == Len(a) <= Len(b) /\ SubSeq(b, 1, Len(a)) = a

IsPowerOfTwo(n) == \E k \in 0..UsizeBits : n = Pow2(k)

\* what the reader thread has taken out of the buffer so far: the samples
\* of its completed reads and the slots its read in progress has copied
TakenOut ==
    delivered \o (IF rpc \in {"copy", "store"} THEN SubSeq(r.out, 1, r.i) ELSE <<>>)

\* C1: with one writer thread in write and one reader thread in read,
\* interleaved at every cursor load, slot copy and cursor store, the samples
\* read are at every moment a prefix of the samples accepted by write:
\* nothing is lost, duplicated, reordered or read before it was stored.
C1_ReadIsPrefixOfAccepted ==
    /\ IsPrefix(TakenOut, accepted)
    \* every position the read cursor has passed was returned, every position
    \* the write cursor has passed was accepted
    /\ Len(delivered) = rb.read_pos
    /\ Len(accepted) = rb.write_pos

\* both threads are inside their calls on a wrapped buffer: the reader has
\* copied the second sample and not yet released it, the writer is storing
\* the third into the slot the first read freed
C1_Witness ==
    /\ rb.capacity = 2
    /\ accepted = <<1, 2>>
    /\ delivered = <<1>>
    /\ rpc = "store" /\ r.out[1] = 2
    /\ wpc = "copy" /\ w.write_pos = 2

\* C2: with one writer (write) and one reader (read, clear) in any
\* interleaving, write_pos >= read_pos and 0 <= write_pos - read_pos <=
\* capacity in every reachable state.
C2_CursorDistanceBounded ==
    /\ rb.write_pos >= rb.read_pos
    /\ 0 <= rb.write_pos - rb.read_pos
    /\ rb.write_pos - rb.read_pos <= rb.capacity

\* a full, wrapped buffer while the reader thread is inside clear and the
\* writer inside write
C2_Witness ==
    /\ rb.capacity = 2
    /\ rb.write_pos = 3 /\ rb.read_pos = 1
    /\ rpc = "clear_store"
    /\ wpc = "load_read_pos"

\* C3: after every operation (new, write, read, clear), in any order,
\* available() + free_space() == capacity.
C3_AvailablePlusFreeIsCapacity == RbAvailable(rb) + RbFreeSpace(rb) = rb.capacity

\* after a truncated write that filled a wrapped buffer
C3_Witness ==
    /\ last.op = "write" /\ last.ret < Len(last.input)
    /\ rb.capacity = 2 /\ rb.write_pos = 3
    /\ RbAvailable(rb) = 2 /\ RbFreeSpace(rb) = 0

\* C4: across write, read and clear steps neither cursor ever decreases;
\* only write's store changes write_pos, and only read's store and clear's
\* store change read_pos.
C4_CursorsNeverDecrease ==
    [][/\ rb'.write_pos >= rb.write_pos
       /\ rb'.read_pos >= rb.read_pos
       /\ (rb'.write_pos # rb.write_pos => wpc = "store" /\ rb'.read_pos = rb.read_pos)
       /\ (rb'.read_pos # rb.read_pos =>
              rpc \in {"store", "clear_store"} /\ rb'.write_pos = rb.write_pos)]_vars

\* clear has moved read_pos over unread samples (nothing was ever read) and
\* the writer has published more since
C4_Witness ==
    /\ rb.read_pos = 2 /\ delivered = <<>>
    /\ rb.write_pos = 3
    /\ rpc = "idle"

\* the slots holding the samples at cursor positions from..(to - 1)
SlotsOf(b, from, to) == {p % b.capacity : p \in from..(to - 1)}

\* the samples buffered and not yet read, oldest first
Unread(b) == SubSeq(accepted, b.read_pos + 1, b.write_pos)

\* C5: write(samples) returns min(samples.len(), free_space() before the
\* call), stores that many leading samples in order behind the write cursor,
\* drops the rest, overwrites no unread sample, changes no other slot, and
\* leaves read_pos and the capacity alone.
C5_WriteContract ==
    [][last'.op = "write" =>
         LET s == last'.input
             n == last'.ret
             written == SlotsOf(rb, rb.write_pos, rb.write_pos + n)
         IN /\ n = Min(Len(s), RbFreeSpace(rb))
            /\ n <= Len(s) /\ n <= RbFreeSpace(rb)
            /\ \A i \in 0..(n - 1) :
                  rb'.data[(rb.write_pos + i) % rb.capacity] = s[i + 1]
            /\ rb'.write_pos = rb.write_pos + n
            /\ rb'.read_pos = rb.read_pos
            /\ written \cap SlotsOf(rb, rb.read_pos, rb.write_pos) = {}
            /\ \A k \in DOMAIN rb.data : k \notin written => rb'.data[k] = rb.data[k]
            /\ rb'.capacity = rb.capacity /\ rb'.mask = rb.mask
            /\ DOMAIN rb'.data = DOMAIN rb.data]_vars

\* a write of two samples into a wrapped buffer with one unread sample and
\* one free slot: one sample accepted, one dropped
C5_Witness ==
    /\ last.op = "write" /\ Len(last.input) = 2 /\ last.ret = 1
    /\ rb.capacity = 2
    /\ pre.write_pos = 2 /\ pre.read_pos = 1

\* C6: read(output) returns min(output.len(), available() before the call),
\* copies the oldest that-many buffered samples into output[0..n] in order,
\* advances read_pos by that count and leaves output[n..] and the buffer's
\* other fields untouched; a short read is an ordinary return.
C6_ReadContract ==
    [][last'.op = "read" =>
         LET o == last'.input
             n == last'.ret
         IN /\ n = Min(Len(o), RbAvailable(rb))
            /\ Len(last'.out) = Len(o)
            /\ \A i \in 1..n :
                  last'.out[i] = rb.data[(rb.read_pos + i - 1) % rb.capacity]
            /\ SubSeq(last'.out, 1, n) = SubSeq(Unread(rb), 1, n)
            /\ \A i \in (n + 1)..Len(o) : last'.out[i] = o[i]
            /\ rb'.read_pos = rb.read_pos + n
            /\ rb'.write_pos = rb.write_pos
            /\ rb'.data = rb.data
            /\ rb'.capacity = rb.capacity /\ rb'.mask = rb.mask]_vars

\* a starved read on a wrapped buffer: two slots asked for, the one
\* buffered sample returned, the second output slot left as it was
C6_Witness ==
    /\ last.op = "read" /\ Len(last.input) = 2 /\ last.ret = 1
    /\ last.out = <<2, OutFill>>
    /\ rb.capacity = 2
    /\ pre.read_pos = 2 /\ pre.write_pos = 3

\* C7: round trip.  In every reachable buffer state, wrapped or not, writing
\* n <= free_space() samples and reading first the samples already
\* buffered and then n more yields the older samples and then exactly the
\* written sequence, in order; on an empty buffer write of n <= capacity
\* followed by read of n returns the written sequence.
C7_RoundTrip ==
    \A s \in Inputs :
        /\ Len(s) <= RbFreeSpace(rb) =>
              LET a == RbWrite(rb, s)
                  older == RbRead(a.rb, OutputOfLen(RbAvailable(rb)))
                  b == RbRead(older.rb, OutputOfLen(Len(s)))
              IN /\ a.ret = Len(s)
                 /\ older.ret = RbAvailable(rb) /\ older.out = Unread(rb)
                 /\ b.ret = Len(s) /\ b.out = s
        /\ (RbAvailable(rb) = 0 /\ Len(s) <= rb.capacity) =>
              RbRead(RbWrite(rb, s).rb, OutputOfLen(Len(s))).out = s

\* a write followed by a read of two different samples whose slots wrap
\* past the end of storage (indices 1, 0)
C7_Witness ==
    /\ last.op = "read" /\ prevOp = "write"
    /\ last.out = <<1, 2>>
    /\ rb.capacity = 2
    /\ pre.read_pos = 1 /\ pre.write_pos = 3

\* C8: after clear(), available() == 0, free_space() == capacity, write_pos
\* is as before, no unread sample is left, and a following read returns 0
\* and leaves its output alone.
C8_ClearDiscardsUnread ==
    /\ last.op = "clear" =>
          /\ RbAvailable(rb) = 0
          /\ RbFreeSpace(rb) = rb.capacity
          /\ rb.write_pos = pre.write_pos
          /\ Unread(rb) = <<>>
          /\ \A o \in Outputs : RbRead(rb, o).ret = 0 /\ RbRead(rb, o).out = o
    /\ (last.op = "read" /\ prevOp = "clear") => last.ret = 0 /\ last.out = last.input

\* clear on a full, wrapped buffer: two unread samples discarded
C8_Witness ==
    /\ last.op = "clear"
    /\ rb.capacity = 2
    /\ pre.write_pos = 3 /\ pre.read_pos = 1

\* C9 as stated: for every requested capacity c, RingBuffer::new(c) creates
\* an empty buffer (write_pos = read_pos = 0, every slot default) whose
\* capacity is the smallest power of two >= c and whose mask is
\* capacity - 1.
NewAsRequested ==
    /\ last.op # "new_panicked"
    /\ last.op = "new" =>
          /\ IsPowerOfTwo(rb.capacity)
          /\ rb.capacity >= requested
          /\ \A p \in 1..(rb.capacity - 1) : IsPowerOfTwo(p) => p < requested
          /\ rb.mask = rb.capacity - 1
          /\ DOMAIN rb.data = 0..(rb.capacity - 1)
          /\ \A k \in DOMAIN rb.data : rb.data[k] = Default
          /\ rb.write_pos = 0 /\ rb.read_pos = 0
          /\ RbAvailable(rb) = 0

C9_NewForEveryRequest == NewAsRequested

\* C9 amended: the same for every requested capacity c <= 2^(usize::BITS - 1),
\* the largest power of two a usize holds.
C9_NewRoundsUpToPowerOfTwo ==
    requested <= Pow2(UsizeBits - 1) => NewAsRequested

\* a request that is not a power of two
C9_Witness ==
    /\ last.op = "new"
    /\ requested = 3
    /\ rb.capacity = 4 /\ rb.mask = 3

\* C10: write on a full buffer returns 0 and read on an empty buffer returns
\* 0, and neither changes a cursor, a storage slot or the output slice.
C10_BoundaryCallsChangeNothing ==
    [][/\ (last'.op = "write" /\ RbAvailable(rb) = rb.capacity) =>
              last'.ret = 0 /\ rb' = rb
       /\ (last'.op = "read" /\ RbAvailable(rb) = 0) =>
              last'.ret = 0 /\ rb' = rb /\ last'.out = last'.input]_vars

\* a write of two samples on a full, wrapped buffer
C10_Witness ==
    /\ last.op = "write" /\ Len(last.input) = 2 /\ last.ret = 0
    /\ rb.capacity = 2
    /\ pre.write_pos = 3 /\ pre.read_pos = 1
    /\ rb.write_pos = 3 /\ rb.read_pos = 1

\* steps of its own a call of the given length takes at most: the two
\* cursor loads, one copy per sample, the cursor store
StepBound(len) == len + 3

WInCall == wpc \in {"load_read_pos", "copy", "store"}
RInCall == rpc \in {"load_write_pos", "copy", "store"}

\* C11: no RingBuffer operation waits on the other side.  Wherever a thread
\* is inside write, read, clear, available or free_space, and wherever the
\* other thread is (inside a call of its own, stalled there, or idle), the
\* thread's next step can be taken at once, and the steps the call has
\* taken so far leave it within its bound: the slice length and three for
\* write and read, two for clear, available and free_space.
C11_NoOperationWaits ==
    /\ wpc # "idle" => ENABLED WriterThread
    /\ rpc # "idle" => ENABLED ReaderThread
    /\ WInCall => w.steps < StepBound(Len(w.samples))
    /\ RInCall => r.steps < StepBound(Len(r.out))
    /\ wpc \in PollFns => w.steps < 2
    /\ rpc \in PollFns \cup {"clear_store"} => r.steps < 2

\* the buffer is full and the reader has stopped in the middle of a read:
\* the writer, inside a write of at least one sample, is about to load
\* read_pos and return
C11_Witness ==
    /\ wpc = "load_read_pos" /\ Len(w.samples) > 0
    /\ RbFreeSpace(rb) = 0 /\ rb.capacity > 0
    /\ rpc = "copy"
\* the slots the write in progress has still to store into, and the slots
\* the read in progress has still to load from
WriterSlots ==
    IF wpc = "copy"
    THEN {SlotIndex(rb, w.write_pos, j) : j \in w.i..(w.to_write - 1)}
    ELSE {}

ReaderSlots ==
    IF rpc = "copy"
    THEN {SlotIndex(rb, r.read_pos, j) : j \in r.i..(r.to_read - 1)}
    ELSE {}

\* C12: slot ownership.  A write stores at (write_pos + i) & mask only for
\* i < capacity - (write_pos - read_pos) with the read_pos it observed, and
\* none of these slots holds an unread sample; a read loads only slots of
\* positions from read_pos up to the write_pos it observed, all of them
\* published; so at no point of an interleaving of one write with one read
\* is a slot the writer has still to store into one the reader is reading
\* or has still to read.
C12_SlotOwnership ==
    /\ wpc \in {"copy", "store"} =>
          /\ w.write_pos = rb.write_pos
          /\ w.to_write <= rb.capacity - (w.write_pos - w.read_pos)
    /\ WriterSlots \cap SlotsOf(rb, rb.read_pos, rb.write_pos) = {}
    /\ rpc \in {"copy", "store"} =>
          /\ r.read_pos = rb.read_pos
          /\ r.to_read <= r.write_pos - r.read_pos
          /\ r.write_pos <= rb.write_pos
    /\ ReaderSlots \subseteq SlotsOf(rb, rb.read_pos, rb.write_pos)
    /\ WriterSlots \cap ReaderSlots = {}

\* on a wrapped buffer of two slots the writer is about to store into slot 0
\* while the reader is about to load slot 1
C12_Witness ==
    /\ rb.capacity = 2
    /\ wpc = "copy" /\ w.write_pos = 2 /\ WriterSlots = {0}
    /\ rpc = "copy" /\ ReaderSlots = {1}

\* the samples a stage holds and has not yet handed out, oldest first
Content(b) ==
    [i \in 1..(b.write_pos - b.read_pos) |-> b.data[(b.read_pos + i - 1) % b.capacity]]

\* the step is a process call (no other call leaves "process" in tlast)
ProcessReturned == tlast'.op = "process"

\* C13: process(input, output) returns Ok(n) with n the smaller of the
\* length of output and the number of samples the output stage held before
\* the call, output[0..n] holds the n oldest of them in order and the stage
\* keeps the rest; n is that number whatever the input stage accepted.
C13_ProcessReturnsOutputStage ==
    [][ProcessReturned =>
          LET held == Content(triple.ring_output)
              n == Min(Len(tlast'.out), Stats(triple).output_available)
          IN  /\ tlast'.ret = Ok(n)
              /\ SubSeq(tlast'.out, 1, n) = SubSeq(held, 1, n)
              /\ Content(triple'.ring_output) = SubSeq(held, n + 1, Len(held))]_vars

\* a call that accepted one input sample returned the two samples the
\* output stage held
C13_Witness ==
    /\ tlast.op = "process"
    /\ tlast.written = 1
    /\ tlast.ret = Ok(2)
    /\ tlast.out = <<1, 2>>

C15_ProcessFeedsOutputStage ==
    (~outside /\ tlast.op = "process" /\ tlast.written > 0) =>
        (tlast.ret.value > 0 \/ Stats(triple).output_available > 0)

\* C16: after every process call the input stage is empty, whatever the
\* length of the input: what the stage accepted in the call has left it
\* within the call.
C16_InputStageDrained ==
    tlast.op = "process" =>
        /\ Stats(triple).input_available = 0
        /\ triple.ring_input.read_pos = triple.ring_input.write_pos

\* an input of two samples on an input stage of one slot: one sample was
\* accepted, and handed on
C16_Witness ==
    /\ tlast.op = "process"
    /\ triple.ring_input.capacity = 1
    /\ Len(tlast.input) = 2
    /\ tlast.written = 1

\* C17: what a process call appends to the resample stage is a prefix of
\* the call's input, value for value and in order, behind the samples the
\* stage already held.
C17_TransferIsIdentity ==
    [][ProcessReturned =>
          \E k \in 0..Len(tlast'.input) :
              Content(triple'.ring_resample) =
                  Content(triple.ring_resample) \o SubSeq(tlast'.input, 1, k)]_vars

\* the resample stage held one sample and the call appended its two
C17_Witness ==
    /\ tlast.op = "process"
    /\ tlast.input = <<1, 2>>
    /\ Content(triple.ring_resample) = <<1, 1, 2>>

\* C18: after clear_all, stats() reports nothing available in any stage and
\* each stage's free count equal to its capacity.
C18_ClearAllEmptiesEveryStage ==
    tlast.op = "clear_all" =>
        /\ Stats(triple).input_available = 0
        /\ Stats(triple).resample_available = 0
        /\ Stats(triple).output_available = 0
        /\ Stats(triple).input_free = triple.ring_input.capacity
        /\ Stats(triple).resample_free = triple.ring_resample.capacity
        /\ Stats(triple).output_free = triple.ring_output.capacity

\* clear_all on a triple whose resample stage had taken three samples and
\* whose output stage had been given two, of which at most one was read
C18_Witness ==
    /\ tlast.op = "clear_all"
    /\ triple.ring_resample.write_pos = 3
    /\ triple.ring_resample.read_pos = 3
    /\ triple.ring_output.write_pos = 2
    /\ triple.ring_output.read_pos = 2

\* the call dropped input samples at the input stage
DroppedAtInput == ProcessReturned /\ tlast'.written < Len(tlast'.input)

\* C19 as stated: whenever a process call drops input samples for want of
\* room in the input stage, stats() reports input_free == 0, read before the
\* call or after it.
C19_OverrunVisibleInStats ==
    [][DroppedAtInput =>
          (Stats(triple).input_free = 0 \/ Stats(triple').input_free = 0)]_vars

\* C19 amended: whenever a process call drops input samples for want of room
\* in the input stage, the stage is full (input_free would be 0) between the
\* call's write into it and its drain, and once the call has returned
\* stats() reports input_free equal to the stage's capacity.
C19_OverrunOnlyInsideCall ==
    [][DroppedAtInput =>
          /\ tlast'.input_free_at_write = 0
          /\ Stats(triple').input_free = triple'.ring_input.capacity]_vars

\* one of two input samples was dropped by an input stage of one slot, and
\* the stage is free again
C19_Witness ==
    /\ tlast.op = "process"
    /\ tlast.written = 1 /\ Len(tlast.input) = 2
    /\ tlast.input_free_at_write = 0
    /\ Stats(triple).input_free = 1

AProcessReturned == acall'.op = "process"
SameRates == processor.input_sample_rate = processor.output_sample_rate

\* C21: with input_sample_rate == output_sample_rate, process returns Ok(n)
\* with n the smaller of the two slice lengths, makes the first n samples of
\* the output slice equal to the first n of the input, and leaves the rest
\* of the output slice as it was.
C21_PassThroughCopiesPrefix ==
    [][(AProcessReturned /\ SameRates) =>
         LET n == Min(Len(inputSlice), Len(outputSlice)) IN
         /\ acall'.ret = Ok(n)
         /\ Len(outputSlice') = Len(outputSlice)
         /\ \A i \in 1..Len(outputSlice) :
                outputSlice'[i] = IF i <= n THEN inputSlice[i] ELSE outputSlice[i]]_vars

\* a pass-through call has copied two samples into an output slice longer
\* than the input
C21_Witness ==
    /\ acall.op = "process"
    /\ SameRates
    /\ acall.ret = Ok(2)
    /\ Len(inputSlice) = 2
    /\ Len(outputSlice) = 4
    /\ SubSeq(outputSlice, 1, 2) = inputSlice
    /\ outputSlice[3] = SliceFill

\* floor(a / b) for naturals a, b
FloorDiv(a, b) == a \div b

RECURSIVE SignedFrom(_, _)
SignedFrom(b, k) ==
    IF k = Len(b) THEN b[k] - (IF b[k] >= 128 THEN 256 ELSE 0)
    ELSE b[k] + 256 * SignedFrom(b, k + 1)

\* the integer the i-th sample of a byte sequence holds, width bytes a sample
EncodedInt(bytes, width, i) ==
    SignedFrom(SubSeq(bytes, (i - 1) * width + 1, i * width), 1)

\* an f32 with its fraction cut off, as an integer
TruncTowardZero(x) ==
    IF x.neg THEN -BToInt(FTruncMag(x)) ELSE BToInt(FTruncMag(x))

One == F32Lit(1, 1)
MinusOne == F32Lit(-1, 1)

Converted(format) == acall.op = "convert_format" /\ acall.format = format
DecodedAs(format) == acall.op = "bytes_to_samples" /\ acall.format = format

\* C23: convert_format to S16LE gives two bytes a sample, the little-endian
\* 16-bit two's-complement integer trunc_toward_zero(clamp(x, -1, 1) * 32767)
\* (the product being an f32); [1.0, 0.0, -1.0, 0.5] encodes to 32767, 0,
\* -32767, 16383.
C23_S16Encoding ==
    Converted("S16LE") =>
        /\ Len(acall.bytes) = 2 * Len(inputSlice)
        /\ \A i \in 1..Len(inputSlice) :
               EncodedInt(acall.bytes, 2, i) =
                   TruncTowardZero(FMul(F32Bits, FClamp(inputSlice[i], MinusOne, One),
                                        F32Lit(32767, 1)))
        /\ inputSlice = ConversionTestInput =>
               [i \in 1..4 |-> EncodedInt(acall.bytes, 2, i)] = <<32767, 0, -32767, 16383>>

\* [1.0, 0.0, -1.0, 0.5] has been converted to S16LE
C23_Witness ==
    /\ Converted("S16LE")
    /\ inputSlice = ConversionTestInput
    /\ acall.bytes = <<255, 127, 0, 0, 1, 128, 255, 63>>

\* significant bits enough for the differences below to be exact
ExactBits == 4 * F64Bits

FAbs(x) == [x EXCEPT !.neg = FALSE]

\* |y - x| <= n / 10000
WithinTenThousandths(y, x, n) ==
    ~FLess(FFromInt(ExactBits, n),
           FMul(ExactBits, FAbs(FSub(ExactBits, y, x)), FFromInt(ExactBits, 10000)))

\* the tolerance of a format, in ten-thousandths
Tolerance(format) == IF format = "S16LE" THEN 3 ELSE 1

InUnitRange(x) == ~FLess(x, MinusOne) /\ ~FLess(One, x)

\* bytes_to_samples has been handed what convert_format made of one sample,
\* in the same format, at an aligned address
RoundTripOfOne ==
    /\ acall.op = "bytes_to_samples"
    /\ acall.format = acall.source_format
    /\ acall.aligned
    /\ Len(inputSlice) = 1

\* C24: for every sample x in [-1.0, 1.0] and each of the four formats,
\* decoding the encoding of [x] gives one sample, within the format's
\* tolerance of x (1e-4, for S16LE 3e-4), for negative x as for positive.
C24_RoundTripWithinTolerance ==
    (RoundTripOfOne /\ InUnitRange(inputSlice[1])) =>
        /\ acall.ret.tag = "Returned"
        /\ Len(acall.ret.value) = 1
        /\ WithinTenThousandths(acall.ret.value[1], inputSlice[1],
                                Tolerance(acall.format))

\* the 24-bit two's-complement value of the i-th group of three bytes
S24Value(bytes, i) == EncodedInt(bytes, 3, i)

\* C25: bytes_to_samples for S24LE sign-extends: a group whose third byte has
\* its top bit set decodes to its negative 24-bit two's-complement value
\* divided by 8388607, and every decoded sample lies in
\* [-8388608 / 8388607, 1.0].
C25_S24SignExtends ==
    (DecodedAs("S24LE") /\ acall.ret.tag = "Returned") =>
        \A i \in 1..Len(acall.ret.value) :
            /\ acall.ret.value[i] =
                   FDiv(F32Bits, FFromInt(F32Bits, S24Value(acall.bytes, i)),
                        F32Lit(8388607, 1))
            /\ ~FLess(One, acall.ret.value[i])
            /\ ~FLess(acall.ret.value[i], F32Lit(-8388608, 8388607))

IntegerFormats == {"S16LE", "S24LE", "S32LE"}

\* the scale of an integer format
ScaleOf(format) ==
    CASE format = "S16LE" -> 32767
      [] format = "S24LE" -> 8388607
      [] format = "S32LE" -> 2147483647

\* C26: for S16LE, S24LE and S32LE the encoded integer of every sample lies
\* in [-scale, scale] (no wrap), and 2.0, -2.0, 10.0, -10.0 taken through
\* S16LE decode to values of absolute value <= 1.0, 2.0 to 1.0.
C26_ClippedToScale ==
    /\ \A format \in IntegerFormats :
           Converted(format) =>
               \A i \in 1..Len(inputSlice) :
                   LET v == EncodedInt(acall.bytes, BytesPerSample(format), i) IN
                   -ScaleOf(format) <= v /\ v <= ScaleOf(format)
    /\ (DecodedAs("S16LE") /\ acall.source_format = "S16LE"
            /\ acall.ret.tag = "Returned") =>
           /\ \A i \in 1..Len(acall.ret.value) : InUnitRange(acall.ret.value[i])
           /\ \A i \in 1..Len(inputSlice) :
                  inputSlice[i] = F32Lit(2, 1) => acall.ret.value[i] = One

\* C27: bytes_per_sample is 4, 2, 3, 4; convert_format returns
\* input.len() * bytes_per_sample bytes; bytes_to_samples returns
\* floor(bytes.len() / bytes_per_sample) samples, a trailing partial sample
\* ignored.
C27_Lengths ==
    /\ BytesPerSample("F32LE") = 4 /\ BytesPerSample("S16LE") = 2
    /\ BytesPerSample("S24LE") = 3 /\ BytesPerSample("S32LE") = 4
    /\ acall.op = "convert_format" =>
           Len(acall.bytes) = Len(inputSlice) * BytesPerSample(acall.format)
    /\ acall.op = "bytes_to_samples" =>
           /\ acall.ret.tag = "Returned"
           /\ Len(acall.ret.value) = Len(acall.bytes) \div BytesPerSample(acall.format)

\* the least integer an integer format encodes: -scale, and for S32LE one
\* less, its f32 scale 2147483647.0 being 2^31
LeastEncoded(format) == IF format = "S32LE" THEN I32Min ELSE -ScaleOf(format)

\* C26 amended: the samples are clamped before scaling and the cast
\* saturates, so no encoded integer wraps: it lies in [-scale, scale] for
\* S16LE and S24LE and in [-2147483648, 2147483647] for S32LE; 2.0, -2.0,
\* 10.0, -10.0 taken through S16LE decode to values of absolute value <= 1.0,
\* 2.0 to 1.0.
C26_ClippedWithoutWrap ==
    /\ \A format \in IntegerFormats :
           Converted(format) =>
               \A i \in 1..Len(inputSlice) :
                   LET v == EncodedInt(acall.bytes, BytesPerSample(format), i) IN
                   /\ LeastEncoded(format) <= v /\ v <= ScaleOf(format)
                   /\ FLess(inputSlice[i], MinusOne) =>
                          v = EncodedInt(ConvertFormat(<<MinusOne>>, format),
                                         BytesPerSample(format), 1)
                   /\ FLess(One, inputSlice[i]) => v = ScaleOf(format)
    /\ (DecodedAs("S16LE") /\ acall.source_format = "S16LE"
            /\ acall.ret.tag = "Returned") =>
           /\ \A i \in 1..Len(acall.ret.value) : InUnitRange(acall.ret.value[i])
           /\ \A i \in 1..Len(inputSlice) :
                  inputSlice[i] = F32Lit(2, 1) => acall.ret.value[i] = One

\* -2.0 has been converted to S32LE: the encoded integer is -2147483648
C26_Witness ==
    /\ Converted("S32LE")
    /\ inputSlice = <<F32Lit(-2, 1)>>
    /\ acall.bytes = <<0, 0, 0, 128>>

(***************************************************************************)
(* Resampler::process                                                      *)
(***************************************************************************)
Resampled == acall.op = "resampler_process"

\* C28: with input_rate == output_rate, process returns Ok of the input,
\* element for element and of the same length.
C28_SameRateReturnsInput ==
    (Resampled /\ resampler.input_rate = resampler.output_rate) =>
        /\ rcall.tag = "Ok"
        /\ Len(rcall.value) = Len(inputSlice)
        /\ \A i \in 1..Len(inputSlice) : rcall.value[i] = inputSlice[i]

\* a resampler with equal rates has returned the four samples it was handed
C28_Witness ==
    /\ Resampled
    /\ resampler.input_rate = resampler.output_rate
    /\ inputSlice = ResamplerTestInput
    /\ rcall = Ok(ResamplerTestInput)

\* x <= y
FLeq(x, y) == ~FLess(y, x)

Exact(n) == FFromInt(ExactBits, n)
ExactMul(x, y) == FMul(ExactBits, x, y)
ExactAdd(x, y) == FAdd(ExactBits, x, y)

\* |y - (y0 + (y1 - y0) * rem / den)| <= 1e-6: y is the point at the
\* fraction rem / den of the way from y0 to y1, up to f32 rounding
OnTheLine(y, y0, y1, rem, den) ==
    FLeq(ExactMul(Exact(1000000),
                  FAbs(FSub(ExactBits, ExactMul(y, Exact(den)),
                            ExactAdd(ExactMul(y0, Exact(den - rem)),
                                     ExactMul(y1, Exact(rem)))))),
         Exact(den))

\* C30 as stated: with differing rates, for each output index i with
\* pos = i * in_rate / out_rate, src = floor(pos), frac = pos - src, the
\* output sample is input[src] + (input[src + 1] - input[src]) * frac when
\* src + 1 < input.len() and exactly input[src] when src is the last input
\* index; src is never past the end of the input.
C30_InterpolatesAtExactPosition ==
    (Resampled /\ resampler.input_rate # resampler.output_rate) =>
        \A i \in 0..(Len(rcall.value) - 1) :
            LET src == FloorDiv(i * resampler.input_rate, resampler.output_rate)
                rem == (i * resampler.input_rate) % resampler.output_rate
            IN  /\ src < Len(inputSlice)
                /\ src + 1 < Len(inputSlice) =>
                       OnTheLine(rcall.value[i + 1], inputSlice[src + 1],
                                 inputSlice[src + 2], rem, resampler.output_rate)
                /\ src + 1 = Len(inputSlice) =>
                       rcall.value[i + 1] = inputSlice[src + 1]

\* C30 amended: src and frac are computed in f64 from the rounded ratio and
\* the sample in f32.  For each output index i the sample is, up to that
\* rounding (1e-6 here), the point input[src] + (input[src + 1] -
\* input[src]) * frac of the exact position when src + 1 < input.len(), and
\* input[src] when src is the last input index: exactly input[src], unless
\* the exact position is the integer src and its f64 quotient fell just
\* below it, the sample then being input[src - 1] + (input[src] -
\* input[src - 1]) * 1.0 in f32.  src is never past the end of the input and
\* no sample lies beyond the two input samples around its position.
C30_InterpolatesUpToRounding ==
    (Resampled /\ resampler.input_rate # resampler.output_rate) =>
        \A i \in 0..(Len(rcall.value) - 1) :
            LET src == FloorDiv(i * resampler.input_rate, resampler.output_rate)
                rem == (i * resampler.input_rate) % resampler.output_rate
                y == rcall.value[i + 1]
            IN  /\ src < Len(inputSlice)
                /\ src + 1 < Len(inputSlice) =>
                       OnTheLine(y, inputSlice[src + 1], inputSlice[src + 2],
                                 rem, resampler.output_rate)
                /\ src + 1 = Len(inputSlice) =>
                       \/ y = inputSlice[src + 1]
                       \/ /\ rem = 0 /\ src >= 1
                          /\ y = Interpolated(inputSlice[src], inputSlice[src + 1],
                                              FFromInt(F64Bits, 1))
                          /\ OnTheLine(y, inputSlice[src + 1], inputSlice[src + 1],
                                       0, resampler.output_rate)

\* eight samples alternating -1.0 and 0.3 have been resampled from 7 Hz to
\* 9 Hz: ten samples, the last (i = 9, position exactly 7, the last input
\* index) within rounding of input[7] but not equal to it
C30_Witness ==
    /\ Resampled
    /\ resampler.input_rate = 7
    /\ resampler.output_rate = 9
    /\ inputSlice = Sawtooth(8)
    /\ Len(rcall.value) = 10
    /\ rcall.value[10] # inputSlice[8]
    /\ OnTheLine(rcall.value[10], inputSlice[8], inputSlice[8], 0, 9)

(***************************************************************************)
(* C31  Cable lifecycle.  A newly created VirtualCable is not running.     *)
(* start() returns Ok only on a cable that is not running, and is_running()*)
(* is true after it; stop() returns Ok only on a cable that is running,    *)
(* and is_running() is false after it.  start() on a running cable and     *)
(* stop() on a cable that is not running return PlatformError and leave    *)
(* is_running() as it was.  No other call, and no call that returns Err,   *)
(* changes is_running(): so the starts and stops that succeed alternate,   *)
(* a start first.                                                          *)
(***************************************************************************)
Succeeded(call) == call.ret.tag = "Ok"

C31_Lifecycle ==
    /\ [](clast.op = "new" => ~IsRunning(cable))
    /\ [][/\ (clast'.op = "start" /\ Succeeded(clast'))
                 => (~IsRunning(cable) /\ IsRunning(cable'))
          /\ (clast'.op = "stop" /\ Succeeded(clast'))
                 => (IsRunning(cable) /\ ~IsRunning(cable'))
          /\ (clast'.op = "start" /\ IsRunning(cable))
                 => (clast'.ret = PlatformError /\ IsRunning(cable'))
          /\ (clast'.op = "stop" /\ ~IsRunning(cable))
                 => (clast'.ret = PlatformError /\ ~IsRunning(cable'))
          /\ ~(clast'.op \in {"start", "stop"} /\ Succeeded(clast'))
                 => (IsRunning(cable') = IsRunning(cable))]_vars

\* a start refused on a Linux cable that an earlier start has set running
C31_Witness ==
    /\ cable.target_os = "linux"
    /\ clast.op = "start"
    /\ clast.ret = PlatformError
    /\ IsRunning(cable)
    /\ cable.null_sink_id # None

(***************************************************************************)
(* C38  LinuxVirtualCable::process_audio on a cable that is not running    *)
(* returns PlatformError and leaves the cable, its triple buffer and its   *)
(* samples_processed counter with it, as they were.  On a running cable it *)
(* returns Ok(n) with n the count TripleRingBuffer::process returns for    *)
(* the slices handed in, the triple buffer is as that call leaves it, and  *)
(* samples_processed has grown by exactly n.                               *)
(***************************************************************************)
C38_ProcessAudioGuarded ==
    [][clast'.op = "process_audio" =>
          IF ~IsRunning(cable)
          THEN /\ clast'.ret = PlatformError
               /\ cable'.triple_buffer = cable.triple_buffer
               /\ cable'.samples_processed = cable.samples_processed
               /\ cable' = cable
          ELSE \E input \in Ramps, output \in Outputs :
                   LET res == TripleProcess(cable.triple_buffer, input, output) IN
                   /\ clast'.ret = Ok(res.ret.value)
                   /\ clast'.out = res.out
                   /\ cable'.triple_buffer = res.triple
                   /\ cable'.samples_processed = cable.samples_processed + res.ret.value]_vars

\* process_audio refused on a cable that processed samples while it ran
C38_Witness ==
    /\ cable.target_os = "linux"
    /\ clast.op = "process_audio"
    /\ clast.ret = PlatformError
    /\ ~IsRunning(cable)
    /\ cable.triple_buffer.ring_resample.write_pos > 0

C40_FailedStartChangesNothing ==
    [][(clast'.op = "start" /\ ~Succeeded(clast') /\ cable.target_os = "linux") =>
          /\ IsRunning(cable') = IsRunning(cable)
          /\ cable'.null_sink_id = cable.null_sink_id
          /\ cable'.active_loopbacks = cable.active_loopbacks
          /\ cable' = cable
          /\ pulse'.modules = pulse.modules]_vars

(***************************************************************************)
(* C37  Resample-stage saturation.  On a TripleRingBuffer whose stages     *)
(* have capacity C, after process calls with inputs of lengths l_1 .. l_n  *)
(* since new (or since the last clear_all) the resample stage holds        *)
(* min(C, min(l_1, C) + .. + min(l_n, C)) samples.  No process call lowers *)
(* that number; once it is C, a process call still returns Ok, takes what  *)
(* the input stage accepts of its input out of the input stage again and   *)
(* leaves the resample stage as it was: those samples are discarded.       *)
(***************************************************************************)
StageCapacity(t) == t.ring_resample.capacity

C33_WrapKeepsCount ==
    /\ IsPowerOfTwo(rb.capacity) /\ UsizeMod % rb.capacity = 0
    /\ USub(rb.write_pos, rb.read_pos) = Len(accepted) - Len(delivered)
    /\ RbAvailable(rb) \in 0..rb.capacity
    /\ RbAvailable(rb) + RbFreeSpace(rb) = rb.capacity
    /\ IsPrefix(delivered, accepted)

\* write_pos has wrapped and read_pos has not: samples on both sides of the
\* wrap are unread, and the reader has been handed some already
C33_Witness ==
    /\ rb.write_pos < rb.read_pos
    /\ RbAvailable(rb) >= 2
    /\ delivered # <<>>

(***************************************************************************)
(* C34  clear() run by a third thread while the reader is inside a read    *)
(* and the writer keeps writing: read_pos never decreases and              *)
(* 0 <= write_pos - read_pos <= capacity in every state.                   *)
(***************************************************************************)
CursorDistanceInBounds ==
    /\ rb.read_pos <= rb.write_pos
    /\ rb.write_pos - rb.read_pos <= rb.capacity

C34_ThirdThreadClearSafe ==
    /\ []CursorDistanceInBounds
    /\ [][rb'.read_pos >= rb.read_pos]_vars

(***************************************************************************)
(* C34, amended  As long as no clear of the third thread has overlapped a  *)
(* read (the reader outside any read at both steps of the clear, and       *)
(* read_pos not moved between them), read_pos never decreases and          *)
(* 0 <= write_pos - read_pos <= capacity, whatever the writer does.  With  *)
(* or without overlap read_pos <= write_pos, and write_pos never           *)
(* decreases.                                                              *)
(***************************************************************************)
C34_ClearOutsideReadsSafe ==
    /\ [](~cleaner.raced => CursorDistanceInBounds)
    /\ [][~cleaner'.raced => rb'.read_pos >= rb.read_pos]_vars
    /\ [](rb.read_pos <= rb.write_pos)
    /\ [][rb'.write_pos >= rb.write_pos]_vars

\* a clear of the third thread that overlapped no read has discarded
\* samples while the writer was inside a write, after a read
C34_Witness ==
    /\ ~cleaner.raced
    /\ cleaner.pc = "idle"
    /\ rb.read_pos > Len(delivered)
    /\ delivered # <<>>
    /\ wpc = "store"

(***************************************************************************)
(* C35  Without clear, what a thread polled is a lower bound for its next  *)
(* call: a write of n <= f samples, f the free_space() the writer thread   *)
(* last observed, accepts all n whatever the reader has read since, and a  *)
(* read into n <= a positions, a the available() the reader thread last    *)
(* observed, delivers n whatever the writer has written since.             *)
(***************************************************************************)
C35_PolledIsLowerBound ==
    /\ [][(wpc = "load_read_pos" /\ Len(w.samples) <= w.polled)
            => IF Len(w.samples) = 0
               THEN wpc' = "idle" /\ accepted' = accepted
               ELSE wpc' = "copy" /\ w'.to_write = Len(w.samples)]_<<wpc, w>>
    /\ [][(wpc = "store" /\ Len(w.samples) <= w.polled)
            => accepted' = accepted \o w.samples]_<<wpc, w>>
    /\ [][(rpc = "load_write_pos" /\ Len(r.out) <= r.polled)
            => IF Len(r.out) = 0
               THEN rpc' = "idle" /\ delivered' = delivered
               ELSE rpc' = "copy" /\ r'.to_read = Len(r.out)]_<<rpc, r>>
    /\ [][(rpc = "store" /\ Len(r.out) <= r.polled)
            => Len(delivered') = Len(delivered) + Len(r.out)]_<<rpc, r>>

\* the writer is in a write of exactly the free space it polled and found
\* more, the reader having read since
C35_Witness ==
    /\ wpc = "store"
    /\ w.polled > 0
    /\ Len(w.samples) = w.polled
    /\ WriteAvailable(rb, w.write_pos, w.read_pos) > w.polled

\* the reader is in a read of exactly the samples it polled and found more,
\* the writer having written since (no state holds both: each thread's
\* polled value lasts until its next call returns)
C35_ReaderWitness ==
    /\ rpc = "store"
    /\ r.polled > 0
    /\ Len(r.out) = r.polled
    /\ ReadAvailable(rb, r.read_pos, r.write_pos) > r.polled

\* the samples read so far are the first of the samples accepted so far,
\* which are the first of the input
InOrderExactlyOnce ==
    /\ IsPrefix(delivered, accepted)
    /\ IsPrefix(accepted, source)

AllDelivered ==
    /\ accepted = source
    /\ delivered = source

(***************************************************************************)
(* C36, as stated  With a producer that re-invokes write with the          *)
(* remainder of a finite input, a consumer that keeps reading into a       *)
(* non-empty slice, fair scheduling and no clear, every sample of the      *)
(* input is eventually accepted and eventually returned by read, in order  *)
(* and exactly once.                                                       *)
(***************************************************************************)
C36_EventualDelivery ==
    /\ []InOrderExactlyOnce
    /\ <>[]AllDelivered

(***************************************************************************)
(* C36, amended  The same on a buffer whose capacity is at least 1, which  *)
(* RingBuffer::new returns for every request whose next power of two does  *)
(* not overflow.  On every buffer the samples read are, in order and once  *)
(* each, the first of the input.                                           *)
(***************************************************************************)
C36_EventualDeliveryWithRoom ==
    /\ []InOrderExactlyOnce
    /\ (rb.capacity >= 1) => <>[]AllDelivered

\* an input longer than the buffer has gone through it whole, so some write
\* accepted only part of what it was handed and the producer came again
C36_Witness ==
    /\ rb.capacity >= 1
    /\ Len(source) > rb.capacity
    /\ AllDelivered

\* processor.process returns on the input resampler.process has just been
\* handed: outputSlice' and rcall hold the two results
BothProcessed == acall.op = "resampler_process" /\ AProcessReturned

\* the output indices both results have
Compared == 0..(Min(acall'.ret.value, Len(rcall.value)) - 1)

\* the branch of Resampler::process that pushes input[src_idx] as it is
LastSample(i) == SrcIdx(Ratio(resampler), i) + 1 = Len(inputSlice)

=============================================================================
